---------------------------- MODULE Spec2Model ----------------------------
(***************************************************************************)
(* A model of timelinedb: typed interleaved sample buffers, the backend    *)
(* function tables, Bresenham sample-rate conversion of the 8 x int16      *)
(* layout, and min/max aggregation.                                        *)
(*                                                                         *)
(* Conventions.                                                            *)
(*  - Storage is modelled element-wise (one int8 or one int16 per cell),   *)
(*    0-based like the C arrays.  malloc/aligned_alloc do not clear        *)
(*    memory, so a cell that was never stored to reads as Indeterminate.   *)
(*  - double/float arithmetic of the source is modelled with exact         *)
(*    rationals (numerator, denominator); conversions to integer types     *)
(*    truncate or round as the C operation does.                           *)
(*  - uint32_t quantities that can wrap are kept as three base-2^16 digits *)
(*    (TLC integers are 32-bit signed).                                    *)
(***************************************************************************)
EXTENDS Integers, Sequences, FiniteSets, TLC

VARIABLES
    build,                        \* which body gTimelineBackendFunctionsSIMD was compiled with
    g_TimelineBackendFunctions,   \* the active function table: "C" or "SIMD"
    input,                        \* the source RawTimelineValuesBuf
    output,                       \* destination of sample-rate conversion
    outMin,                       \* aggregation output (minima)
    outMax,                       \* aggregation output (maxima)
    last,                         \* the most recent API call: name, arguments, return value
    perBackend,                   \* what the same call writes under each of the two tables
    selected,                     \* index of the most recent successful setBackend call, or -1
    allocReq,                     \* arguments and results of the last wide-arithmetic allocation
    neon_buf,                     \* 8 x int16 buffer filled by convert_to_NeonAlignedBuffer
    narrow_buf,                   \* int8 destination of convert_from_NeonAlignedBuffer
    call                          \* the aggregate_MinMax / convert_sample_rate call in progress

vars == <<build, g_TimelineBackendFunctions, input, output, outMin, outMax,
          last, perBackend, selected, allocReq, neon_buf, narrow_buf, call>>

---------------------------------------------------------------------------
(* Bounds of the model *)

MaxSamples == 5

MaxBins == 2

MaxBackendIndex == 3

MaxAggSamples == 2

MaxOffset == 1

MaxBufSamples == 2

MaxNeonSamples == 3

---------------------------------------------------------------------------
(* Program constants *)

INT16_MAX == 32767

INT16_MIN == -32768

INT8_MAX == 127

INT8_MIN == -128

SimdLanes == 8

NeonBlock == 16

Q16One == 65536

Base16 == 256 * 256

\* The value read from a storage cell that was never written.
Indeterminate == 0 - 1000000

Min2(a, b) == IF a < b THEN a ELSE b

Max2(a, b) == IF a > b THEN a ELSE b

---------------------------------------------------------------------------
(* Wide unsigned arithmetic: <<d0, d1, d2>> stands for d0 + d1*2^16 + d2*2^32 *)

Wide(hi, lo) == <<lo, hi, 0>>

WideOfInt(n) == <<n % Base16, n \div Base16, 0>>

\* w * k for 0 <= k < 2^15
WMulSmall(w, k) ==
    LET p0 == w[1] * k
        p1 == w[2] * k + (p0 \div Base16)
        p2 == w[3] * k + (p1 \div Base16)
    IN  <<p0 % Base16, p1 % Base16, p2>>

\* w + k for 0 <= k < 2^15
WAddSmall(w, k) ==
    LET s0 == w[1] + k
        s1 == w[2] + (s0 \div Base16)
        s2 == w[3] + (s1 \div Base16)
    IN  <<s0 % Base16, s1 % Base16, s2>>

\* conversion to uint32_t
WTrunc32(w) == <<w[1], w[2], 0>>

WLeq(a, b) ==
    \/ a[3] < b[3]
    \/ a[3] = b[3] /\ a[2] < b[2]
    \/ a[3] = b[3] /\ a[2] = b[2] /\ a[1] <= b[1]

WFits(w) == w[3] = 0 /\ w[2] < 16384

WToInt(w) == w[2] * Base16 + w[1]

RECURSIVE BitAnd(_, _, _)
\* bitwise AND of the low `bits` bits of a and b
BitAnd(a, b, bits) ==
    IF bits = 0 THEN 0
    ELSE (IF a % 2 = 1 /\ b % 2 = 1 THEN 1 ELSE 0)
         + 2 * BitAnd(a \div 2, b \div 2, bits - 1)

---------------------------------------------------------------------------
(* RawTimelineValuesBuf and its storage *)

NullStorage == [null |-> TRUE, cap |-> 0, mem |-> <<>>]

NullRateInfo == [null |-> TRUE, num |-> 0, den |-> 1, rate_ratio |-> [m |-> <<>>, e |-> 0]]

NullPlan == [null |-> TRUE, entries |-> <<>>]

\* init_RawTimelineValuesBuf: every field zero / NULL
InitBuf ==
    [ buffer_size      |-> 0,
      nr_of_samples    |-> 0,
      time_step        |-> 0,
      time_exponent    |-> 0,
      nr_of_channels   |-> 0,
      bitwidth         |-> 0,
      bytes_per_sample |-> 0,
      value_type       |-> "TR_undefined",
      valueBuffer      |-> NullStorage,
      sample_rate_info |-> NullRateInfo,
      prepared_data_src |-> NullPlan ]

\* uint8_t bytes_per_sample = (nr_of_channels*bitwidth+7)/8
BytesPerSample(nr_of_channels, bitwidth) ==
    ((nr_of_channels * bitwidth + 7) \div 8) % 256

\* uint32_t buffer_size = nr_of_samples * nr_of_channels * bytes_per_sample
BufferSize(samplesW, nr_of_channels, bytes_per_sample) ==
    WTrunc32(WMulSmall(WTrunc32(WMulSmall(samplesW, nr_of_channels)), bytes_per_sample))

\* alloc_raw_aligned: the number of bytes requested from malloc / aligned_alloc.
\* The size_t computation is 64 bits wide and does not wrap here.
AcquiredBytes(sizeW, alignment) ==
    IF alignment <= 1 THEN sizeW
    ELSE LET s == WAddSmall(sizeW, alignment - 1)
         IN  <<s[1] - BitAnd(s[1] % 256, alignment - 1, 8), s[2], s[3]>>

\* alloc_raw_aligned for a successful allocation: fresh, uncleared storage.
\* (A failed allocation ends the process in alloc_RawTimelineValuesBuf.)
alloc_raw_aligned(sizeW, alignment) ==
    [null |-> FALSE, cap |-> WToInt(AcquiredBytes(sizeW, alignment)), mem |-> <<>>]

alloc_RawTimelineValuesBuf(buf, nr_of_samples, nr_of_channels, bitwidth, bytealignment, value_type) ==
    LET bps  == BytesPerSample(nr_of_channels, bitwidth)
        size == BufferSize(WideOfInt(nr_of_samples), nr_of_channels, bps)
    IN  [buf EXCEPT !.nr_of_samples    = nr_of_samples,
                    !.nr_of_channels   = nr_of_channels,
                    !.bitwidth         = bitwidth,
                    !.bytes_per_sample = bps,
                    !.value_type       = value_type,
                    !.buffer_size      = WToInt(size),
                    !.valueBuffer      = alloc_raw_aligned(size, bytealignment)]

\* free_RawTimelineValuesBuf without valueBuffer = NULL after free(valueBuffer)
free_RawTimelineValuesBuf_keepsPointer(buf) ==
    [buf EXCEPT !.prepared_data_src = NullPlan,
                !.sample_rate_info  = NullRateInfo,
                !.nr_of_samples     = 0]

\* the number of regions free_RawTimelineValuesBuf(buf) passes to free(): one for
\* each of the three pointers that is not NULL
Released(buf) ==
    (IF buf.valueBuffer.null THEN 0 ELSE 1)
    + (IF buf.prepared_data_src.null THEN 0 ELSE 1)
    + (IF buf.sample_rate_info.null THEN 0 ELSE 1)

\* free_RawTimelineValuesBuf: releases the three allocations and clears nr_of_samples
free_RawTimelineValuesBuf(buf) ==
    [buf EXCEPT !.valueBuffer       = NullStorage,
                !.prepared_data_src = NullPlan,
                !.sample_rate_info  = NullRateInfo,
                !.nr_of_samples     = 0]

\* realloc_RawTimelineValuesBufs of the viewer: free, then alloc with the fields
\* the buffer still holds (bytes_per_sample is passed as the alignment)
realloc_RawTimelineValuesBufs(buf, new_w) ==
    alloc_RawTimelineValuesBuf(free_RawTimelineValuesBuf(buf), new_w, buf.nr_of_channels,
                               buf.bitwidth, buf.bytes_per_sample, buf.value_type)

\* the number of regions a call leaves without a pointer to them.  `l` is the call,
\* out, mn, mx, neon the buffers it was made on.  alloc_RawTimelineValuesBuf assigns
\* buf->valueBuffer and prepare_SampleRateConversion assigns
\* output->sample_rate_info without releasing what the pointer held; the plan in
\* prepared_data_src is released before it is replaced.
RegionsDropped(l, out, mn, mx, neon) ==
    LET held(buf) == IF buf.valueBuffer.null THEN 0 ELSE 1
    IN  CASE l.op = "prepare_SampleRateConversion" ->
               (IF out.sample_rate_info.null THEN 0 ELSE 1) + held(out)
          [] l.op = "prepare_AggregationMinMax" /\ l.ret = 0 -> held(mn) + held(mx)
          [] l.op = "prepare_NeonAlignedBuffer" /\ l.ret = 0 -> held(neon)
          [] l.op = "screen_update" ->
               held(realloc_RawTimelineValuesBufs(mn, l.arg1))
               + held(realloc_RawTimelineValuesBufs(mx, l.arg1))
          [] OTHER -> 0

\* mem[k + 1] holds element k of the storage once it has been written; elements
\* never written, and every element past Len(mem), are indeterminate
Unwritten(mem, n) ==
    IF Len(mem) >= n THEN mem ELSE mem \o [k \in 1..(n - Len(mem)) |-> Indeterminate]

\* bytes of one storage element of the buffer
ElemBytes(buf) == IF buf.bitwidth = 16 THEN 2 ELSE IF buf.bitwidth = 32 THEN 4 ELSE 1

\* p[idx] for a typed pointer p into the buffer's storage
Cell(buf, idx) ==
    IF idx >= 0 /\ (idx + 1) * ElemBytes(buf) <= buf.valueBuffer.cap
       /\ idx < Len(buf.valueBuffer.mem)
    THEN buf.valueBuffer.mem[idx + 1]
    ELSE Indeterminate

\* p[idx] = v; a store outside the acquired bytes is not recorded
Store(vb, es, idx, v) ==
    IF idx >= 0 /\ (idx + 1) * es <= vb.cap
    THEN [vb EXCEPT !.mem = [Unwritten(@, idx + 1) EXCEPT ![idx + 1] = v]]
    ELSE vb

\* getSampleByteOffset
getSampleByteOffset(buf, sample_index, channel) ==
    IF sample_index >= buf.nr_of_samples \/ channel >= buf.nr_of_channels
    THEN [ret |-> -1, offset |-> 0]
    ELSE [ret |-> 0,
          offset |-> sample_index * buf.bytes_per_sample + (channel * buf.bitwidth) \div 8]

\* getSampleValue_int8 / getSampleValue_SIMD_sint16x8 / getSampleValue_float32
\* (width = 8, 16 or 32); *value is assigned on the success path only
getSampleValue(buf, sample_index, channel, width) ==
    IF \/ sample_index >= buf.nr_of_samples
       \/ channel >= buf.nr_of_channels
       \/ buf.bitwidth # width
    THEN [ret |-> -1, value |-> 0]
    ELSE LET o == getSampleByteOffset(buf, sample_index, channel)
         IN  IF o.ret # 0 THEN [ret |-> -1, value |-> 0]
             ELSE [ret |-> 0, value |-> Cell(buf, o.offset \div (width \div 8))]

\* The value a reader gets for sample i, channel c of a buffer
SampleAt(buf, i, c) == getSampleValue(buf, i, c, buf.bitwidth).value

---------------------------------------------------------------------------
(* Conversions to integer types *)

\* (int16_t)x / (uint16_t)x for an x the type cannot represent is undefined in C.
\* Builds that convert through a 32-bit register keep the low 16 bits ("wrap");
\* a saturating conversion is the other outcome ("sat").
CastModes == {"wrap", "sat"}

Wrap16(x) == ((x + 32768) % 65536) - 32768

CastInt16(x, mode) ==
    IF x >= INT16_MIN /\ x <= INT16_MAX THEN x
    ELSE IF mode = "wrap" THEN Wrap16(x)
    ELSE IF x > INT16_MAX THEN INT16_MAX ELSE INT16_MIN

CastUint16(x, mode) ==
    IF x >= 0 /\ x < Q16One THEN x
    ELSE IF mode = "wrap" THEN x % Q16One
    ELSE IF x < 0 THEN 0 ELSE Q16One - 1

\* round(num/den) of <math.h>: to nearest, halfway cases away from zero (den > 0)
RoundHalfAway(num, den) ==
    IF num >= 0 THEN (2 * num + den) \div (2 * den)
    ELSE 0 - ((2 * (0 - num) + den) \div (2 * den))

RECURSIVE Pow10(_)
Pow10(e) == IF e = 0 THEN 1 ELSE 10 * Pow10(e - 1)

---------------------------------------------------------------------------
(* Interpolation plan: init_InterpInfo *)

\* a < b on uint32_t values; a value of 2^31 or more is held as the negative
\* number congruent to it modulo 2^32 (so in_samples - 2 is -1 for in_samples = 1)
U32Less(a, b) == IF (a < 0) = (b < 0) THEN a < b ELSE b < 0

\* One SampleInterpInfo for output index i; in_n, out_n are the sample counts.
\* With in_n < 2 the clamp wraps idx0 to 2^32 - 1; frac = original_index - idx0 is
\* then below -2^32 and its conversion to uint16_t is undefined.
InterpEntry(i, in_n, out_n, mode) ==
    LET floorIdx == (i * in_n) \div out_n
        idx0 == IF ~U32Less(floorIdx, in_n - 1) THEN in_n - 2 ELSE floorIdx
        idx1 == IF U32Less(idx0 + 1, in_n) THEN idx0 + 1 ELSE idx0
        \* frac = original_index - idx0 = (i*in_n - idx0*out_n) / out_n
        scaled == IF idx0 < 0 THEN (((i * in_n * Q16One) \div out_n) % Q16One) - Q16One
                  ELSE ((i * in_n - idx0 * out_n) * Q16One) \div out_n
        frac_fixed == CastUint16(scaled, mode)
        inv_frac_fixed == (Q16One - frac_fixed) % Q16One
    IN  [idx0 |-> idx0, idx1 |-> idx1, frac |-> frac_fixed, inv_frac |-> inv_frac_fixed]

\* init_InterpInfo: the plan stored in output->prepared_data_src
init_InterpInfo(in, out, mode) ==
    IF in.nr_of_channels # SimdLanes THEN out
    ELSE [out EXCEPT !.prepared_data_src =
             [null |-> FALSE,
              entries |-> [k \in 1..out.nr_of_samples |->
                             InterpEntry(k - 1, in.nr_of_samples, out.nr_of_samples, mode)]]]

---------------------------------------------------------------------------
(* IEEE-754 binary64 arithmetic of prepare_SampleRateConversion *)

\* A natural number of any size is a sequence of digits base 2^15, least
\* significant first, without leading zero digits (<<>> is zero).
BigBase == 32768

BigNat == Seq(0..(BigBase - 1))

\* 2^k for k in 0..15
Pow2(k) == <<1, 2, 4, 8, 16, 32, 64, 128, 256, 512, 1024, 2048, 4096, 8192, 16384, 32768>>[k + 1]

\* the number of bits of a digit
BitLenSmall(d) == Cardinality({k \in 0..14 : Pow2(k) <= d})

BigDigit(a, k) == IF k <= Len(a) THEN a[k] ELSE 0

BigFromNat[n \in Nat] == IF n = 0 THEN <<>> ELSE <<n % BigBase>> \o BigFromNat[n \div BigBase]

\* the value of a uint32_t held with the convention of U32Less
BigFromU32[x \in Int] ==
    IF x >= 0 THEN BigFromNat[x]
    ELSE LET low == (x + 1073741824) + 1073741824
         IN  <<low % BigBase, (low \div BigBase) % BigBase, 2 + (low \div 1073741824)>>

BigTrim[a \in BigNat] ==
    IF a = <<>> THEN a
    ELSE IF a[Len(a)] = 0 THEN BigTrim[SubSeq(a, 1, Len(a) - 1)] ELSE a

BigAddFrom[a \in BigNat, b \in BigNat, k \in Nat, carry \in 0..1] ==
    IF k > Len(a) /\ k > Len(b) THEN (IF carry = 0 THEN <<>> ELSE <<carry>>)
    ELSE LET s == BigDigit(a, k) + BigDigit(b, k) + carry
         IN  <<s % BigBase>> \o BigAddFrom[a, b, k + 1, s \div BigBase]

BigAdd[a \in BigNat, b \in BigNat] == BigAddFrom[a, b, 1, 0]

BigSubFrom[a \in BigNat, b \in BigNat, k \in Nat, borrow \in 0..1] ==
    IF k > Len(a) THEN <<>>
    ELSE LET s == a[k] - BigDigit(b, k) - borrow
         IN  <<s % BigBase>> \o BigSubFrom[a, b, k + 1, IF s < 0 THEN 1 ELSE 0]

\* a - b for a >= b
BigSub[a \in BigNat, b \in BigNat] == BigTrim[BigSubFrom[a, b, 1, 0]]

BigLessFrom[a \in BigNat, b \in BigNat, k \in Nat] ==
    IF k = 0 THEN FALSE
    ELSE IF a[k] # b[k] THEN a[k] < b[k] ELSE BigLessFrom[a, b, k - 1]

BigLess[a \in BigNat, b \in BigNat] ==
    IF Len(a) # Len(b) THEN Len(a) < Len(b) ELSE BigLessFrom[a, b, Len(a)]

BigMulSmallFrom[a \in BigNat, d \in Nat, k \in Nat, carry \in Nat] ==
    IF k > Len(a) THEN (IF carry = 0 THEN <<>> ELSE <<carry>>)
    ELSE LET s == a[k] * d + carry
         IN  <<s % BigBase>> \o BigMulSmallFrom[a, d, k + 1, s \div BigBase]

\* a * d for a digit d
BigMulSmall[a \in BigNat, d \in Nat] == BigTrim[BigMulSmallFrom[a, d, 1, 0]]

\* a * 2^(15 * k)
BigShiftDigits[a \in BigNat, k \in Nat] ==
    IF a = <<>> \/ k = 0 THEN a ELSE <<0>> \o BigShiftDigits[a, k - 1]

BigMulFrom[a \in BigNat, b \in BigNat, k \in Nat] ==
    IF k > Len(b) THEN <<>>
    ELSE BigAdd[BigShiftDigits[BigMulSmall[a, b[k]], k - 1], BigMulFrom[a, b, k + 1]]

BigMul[a \in BigNat, b \in BigNat] == BigMulFrom[a, b, 1]

BigPow10[k \in Nat] == IF k = 0 THEN <<1>> ELSE BigMulSmall[BigPow10[k - 1], 10]

BigBitLen[a \in BigNat] ==
    IF a = <<>> THEN 0 ELSE 15 * (Len(a) - 1) + BitLenSmall(a[Len(a)])

\* bit i of a, bit 0 being the least significant
BigBit[a \in BigNat, i \in Nat] == (BigDigit(a, (i \div 15) + 1) \div Pow2(i % 15)) % 2

\* a * 2^s
BigShl[a \in BigNat, s \in Nat] == BigShiftDigits[BigMulSmall[a, Pow2(s % 15)], s \div 15]

BigShrFrom[a \in BigNat, p \in Nat, k \in Nat] ==
    IF k > Len(a) THEN <<>>
    ELSE <<(a[k] \div p) + (BigDigit(a, k + 1) % p) * (BigBase \div p)>>
         \o BigShrFrom[a, p, k + 1]

\* floor(a / 2^s)
BigShr[a \in BigNat, s \in Nat] ==
    IF s \div 15 >= Len(a) THEN <<>>
    ELSE BigTrim[BigShrFrom[SubSeq(a, (s \div 15) + 1, Len(a)), Pow2(s % 15), 1]]

\* lowers an estimated quotient digit q, with p = q * b, until p <= a
BigDivFix[q \in Nat, p \in BigNat, a \in BigNat, b \in BigNat] ==
    IF BigLess[a, p] THEN BigDivFix[q - 1, BigSub[p, b], a, b]
    ELSE [q |-> q, r |-> BigSub[a, p]]

\* the quotient digit estimated from the two leading digits of a and the leading
\* digit of b
BigDivEstimate[a \in BigNat, b \in BigNat] ==
    LET n == Len(b)
        est == (BigDigit(a, n + 1) * BigBase + BigDigit(a, n)) \div b[n]
    IN  IF est < BigBase THEN est ELSE BigBase - 1

\* a quotient digit q with its product p = b * q
BigMulPair[a \in BigNat, b \in Nat] == [q |-> b, p |-> BigMulSmall[a, b]]

BigDivTry[a \in BigNat, b \in BigNat, e \in [q : Nat, p : BigNat]] == BigDivFix[e.q, e.p, a, b]

\* one step of the long division: a < b * 2^15, and the top digit of b is at
\* least 2^14, so that the estimate is at most 2 too large
BigDivDigit[a \in BigNat, b \in BigNat] == BigDivTry[a, b, BigMulPair[b, BigDivEstimate[a, b]]]

BigDivState == [q : Nat, r : BigNat]

\* the long division digit by digit, from digit k of a down to digit 1; s is
\* the last quotient digit and the remainder, q the digits before it
BigDivDigits[a \in BigNat, b \in BigNat, k \in Nat, q \in BigNat, s \in BigDivState] ==
    IF k = 0 THEN [q |-> BigTrim[<<s.q>> \o q], r |-> s.r]
    ELSE BigDivDigits[a, b, k - 1, <<s.q>> \o q, BigDivDigit[BigTrim[<<a[k]>> \o s.r], b]]

BigDivStart[a \in BigNat, b \in BigNat] ==
    BigDivDigits[a, b, Len(a), <<>>, [q |-> 0, r |-> <<>>]]

BigDivResult == [q : BigNat, r : BigNat]

BigDivUnscale[s \in BigDivResult, t \in Nat] == [q |-> s.q, r |-> BigShr[s.r, t]]

BigDivScaled[a \in BigNat, b \in BigNat, t \in Nat] ==
    BigDivUnscale[BigDivStart[BigShl[a, t], BigShl[b, t]], t]

\* quotient and remainder of a / b for b > 0
BigDivMod[a \in BigNat, b \in BigNat] == BigDivScaled[a, b, 15 - BitLenSmall(b[Len(b)])]

\* A finite double is [m, e] with value m * 2^e and 2^52 <= m < 2^53, or zero.
\* The values prepare_SampleRateConversion computes are not negative, and
\* neither subnormal nor above DBL_MAX for the exponents and rates of a timeline.
Dbl == [m : BigNat, e : Int]

DblZero == [m |-> <<>>, e |-> 0]

\* the quotient of a positive number by zero
DblInf == [m |-> <<>>, e |-> 1]

\* q * 2^e for q of 53 bits, or the next double above it when up
DblRoundUp[q \in BigNat, e \in Int, up \in BOOLEAN] ==
    IF ~up THEN [m |-> q, e |-> e]
    ELSE IF BigBitLen[BigAdd[q, <<1>>]] > 53 THEN [m |-> BigShr[BigAdd[q, <<1>>], 1], e |-> e + 1]
    ELSE [m |-> BigAdd[q, <<1>>], e |-> e]

\* DblRound for an m of 53 + k bits
DblRoundBits[m \in BigNat, e \in Int, sticky \in BOOLEAN, k \in Int] ==
    IF k <= 0 THEN [m |-> BigShl[m, 0 - k], e |-> e + k]
    ELSE DblRoundUp[BigShr[m, k], e + k,
                    /\ BigBit[m, k - 1] = 1
                    /\ \/ sticky
                       \/ BigShl[BigShr[m, k - 1], k - 1] # m
                       \/ BigBit[m, k] = 1]

\* m * 2^e rounded to the nearest double, ties to even; sticky tells that the
\* exact value is above m * 2^e by less than 2^e
DblRound[m \in BigNat, e \in Int, sticky \in BOOLEAN] ==
    IF m = <<>> THEN DblZero ELSE DblRoundBits[m, e, sticky, BigBitLen[m] - 53]

\* (double)x for a uint32_t x
DblFromU32[x \in Int] == DblRound[BigFromU32[x], 0, FALSE]

DblQuotRound[qr \in BigDivResult, e \in Int] == DblRound[qr.q, e, qr.r # <<>>]

DblQuotShift[a \in BigNat, b \in BigNat, e \in Int, s \in Nat] ==
    DblQuotRound[BigDivMod[BigShl[a, s], b], e - s]

\* (a / b) * 2^e rounded once, for naturals a > 0 and b > 0
DblQuot[a \in BigNat, b \in BigNat, e \in Int] ==
    DblQuotShift[a, b, e, Max2(0, 55 + BigBitLen[b] - BigBitLen[a])]

DblMul[x \in Dbl, y \in Dbl] ==
    IF x.m = <<>> \/ y.m = <<>> THEN DblZero
    ELSE DblRound[BigMul[x.m, y.m], x.e + y.e, FALSE]

\* x / y; 1.0 / 0.0 is infinite and a finite x divided by it is zero
DblDiv[x \in Dbl, y \in Dbl] ==
    IF x = DblInf \/ y = DblInf \/ x = DblZero THEN DblZero
    ELSE IF y = DblZero THEN DblInf
    ELSE DblQuot[x.m, y.m, x.e - y.e]

\* x + y for doubles x, y >= 0
DblAdd[x \in Dbl, y \in Dbl] ==
    IF x = DblInf \/ y = DblInf THEN DblInf
    ELSE IF x = DblZero THEN y
    ELSE IF y = DblZero THEN x
    ELSE IF x.e >= y.e THEN DblRound[BigAdd[BigShl[x.m, x.e - y.e], y.m], y.e, FALSE]
    ELSE DblRound[BigAdd[x.m, BigShl[y.m, y.e - x.e]], x.e, FALSE]

\* x <= y for doubles x, y >= 0 (every finite non-zero m has 53 bits)
DblLeq[x \in Dbl, y \in Dbl] ==
    IF x = DblZero \/ y = DblInf THEN TRUE
    ELSE IF x = DblInf \/ y = DblZero THEN FALSE
    ELSE x.e < y.e \/ (x.e = y.e /\ ~BigLess[y.m, x.m])

\* pow(10.0, e): the double nearest to 10^e
DblPow10[e \in Int] ==
    IF e >= 0 THEN DblRound[BigPow10[e], 0, FALSE] ELSE DblQuot[<<1>>, BigPow10[0 - e], 0]

\* the low 32 bits of v as a uint32_t, or UINT32_MAX for a v of more than 32
\* bits when the conversion saturates
BigToU32[v \in BigNat, mode \in {"wrap", "sat"}] ==
    IF BigBitLen[v] > 32 /\ mode = "sat" THEN -1
    ELSE (IF BigDigit(v, 3) % 4 >= 2 THEN ((BigDigit(v, 3) % 4) - 4) * 1073741824
          ELSE (BigDigit(v, 3) % 4) * 1073741824)
         + BigDigit(v, 1) + BigDigit(v, 2) * BigBase

\* (uint32_t)x for a double x >= 0: the integer part. For x >= 2^32 the
\* conversion is undefined in C: the low 32 bits of the integer part ("wrap") or
\* UINT32_MAX ("sat").
DblToU32[x \in Dbl, mode \in {"wrap", "sat"}] ==
    BigToU32[IF x.e >= 0 THEN BigShl[x.m, x.e] ELSE BigShr[x.m, 0 - x.e], mode]

---------------------------------------------------------------------------
(* prepare_SampleRateConversion *)

\* the sample rates the specifications convert to
Rates == {400000, 500000, 1000000, 2000000}

BufRates == {1000000, 2000000}

PrepRates == {200000, 400000, 1000000}

\* the time steps, in microseconds, of the inputs of SpecPrepare
PrepTimeSteps == {1, 5}

\* rate_ratio as the code computes it: time_unit = pow(10.0, time_exponent),
\* old_rate = 1.0 / (time_step * time_unit), rate_ratio = new_sample_rate_hz / old_rate
RateRatioOf[time_step \in Int, time_exponent \in Int, new_sample_rate_hz \in Int] ==
    LET time_unit == DblPow10[time_exponent]
        old_rate == DblDiv[DblFromU32[1], DblMul[DblFromU32[time_step], time_unit]]
    IN  DblDiv[DblFromU32[new_sample_rate_hz], old_rate]

DblRateRatio(in, new_sample_rate_hz) ==
    RateRatioOf[in.time_step, in.time_exponent, new_sample_rate_hz]

\* rate_ratio together with the product nr_of_samples * rate_ratio
SampleProduct[nr_of_samples \in Int, rate_ratio \in Dbl] ==
    [rate_ratio |-> rate_ratio, product |-> DblMul[DblFromU32[nr_of_samples], rate_ratio]]

\* the exact value of new_sample_rate_hz / (1 / (time_step * 10^time_exponent)), as
\* a fraction; the conversion kernels are modelled on it
RateRatio(in, new_sample_rate_hz) ==
    IF in.time_exponent >= 0
    THEN [num |-> new_sample_rate_hz * in.time_step * Pow10(in.time_exponent), den |-> 1]
    ELSE [num |-> new_sample_rate_hz * in.time_step, den |-> Pow10(0 - in.time_exponent)]

\* step = (uint32_t)(candidate_step + 0.5), truncated instead of rounded
RoundStep_truncating(candidate_step) == DblToU32[candidate_step, "sat"]

\* step = (uint32_t)(candidate_step + 0.5) for 1.0 <= candidate_step <= UINT32_MAX
RoundStep(candidate_step) ==
    DblToU32[DblAdd[candidate_step, DblQuot[<<1>>, <<2>>, 0]], "sat"]

\* the loop for (e = 15; e >= -15; e -= 3) over candidate_step = ideal_time /
\* pow(10.0, e), from exponent e on
NormalizeStep[ideal_time \in Dbl, e \in Int] ==
    IF e < -15 THEN [exp |-> 0, step |-> 0]
    ELSE CHOOSE tb \in
             { IF /\ DblLeq[DblFromU32[1], candidate_step]
                  /\ DblLeq[candidate_step, DblFromU32[-1]]
               THEN [exp |-> e, step |-> RoundStep(candidate_step)]
               ELSE NormalizeStep[ideal_time, e - 3] :
                 candidate_step \in {DblDiv[ideal_time, DblPow10[e]]} } : TRUE

\* exp and step for ideal_time = 1.0 / new_sample_rate_hz
TimeBaseOf[new_sample_rate_hz \in Int] ==
    NormalizeStep[DblDiv[DblFromU32[1], DblFromU32[new_sample_rate_hz]], 15]

\* static const char *units[]
EngineeringUnits == <<"Hz", "kHz", "MHz", "GHz", "THz", "PHz">>

\* while (freq_hz >= 1000.0 && exponent_index < 5) { freq_hz /= 1000.0; exponent_index++; }
ScaleFrequency[freq_hz \in Dbl, exponent_index \in Nat] ==
    IF DblLeq[DblFromU32[1000], freq_hz] /\ exponent_index < 5
    THEN ScaleFrequency[DblDiv[freq_hz, DblFromU32[1000]], exponent_index + 1]
    ELSE [freq_val |-> freq_hz, freq_unit |-> EngineeringUnits[exponent_index + 1]]

getEngineeringSampleRateFrequency(buf) ==
    ScaleFrequency[DblDiv[DblFromU32[1],
                          DblMul[DblFromU32[buf.time_step], DblPow10[buf.time_exponent]]],
                   0]

\* the floating-point values of prepare_SampleRateConversion: rate_ratio,
\* nr_of_samples * rate_ratio, and the time base tb of the new rate
PreparedDoubles(in, new_sample_rate_hz) ==
    [tb |-> TimeBaseOf[new_sample_rate_hz]] @@
    SampleProduct[in.nr_of_samples, DblRateRatio(in, new_sample_rate_hz)]

\* dbl holds PreparedDoubles(in, new_sample_rate_hz)
prepare_SampleRateConversion(in, new_sample_rate_hz, out, dbl, mode) ==
    LET ratio == RateRatio(in, new_sample_rate_hz)
        Prepared(new_nr_samples) ==
            LET o1 == [out EXCEPT !.time_exponent = dbl.tb.exp,
                                  !.time_step = dbl.tb.step,
                                  !.sample_rate_info =
                                      [null |-> FALSE, num |-> ratio.num, den |-> ratio.den,
                                       rate_ratio |-> dbl.rate_ratio]]
                o2 == alloc_RawTimelineValuesBuf(o1, new_nr_samples, in.nr_of_channels,
                                                 in.bitwidth, in.bytes_per_sample,
                                                 in.value_type)
                o3 == IF o2.value_type = "TR_SIMD_sint16x8"
                      THEN init_InterpInfo(in, [o2 EXCEPT !.prepared_data_src = NullPlan],
                                           mode)
                      ELSE o2
            IN  [ret |-> IF o3.valueBuffer.null THEN -1 ELSE 0, out |-> o3]
    \* new_nr_samples = (uint32_t)(nr_of_samples * rate_ratio)
    IN  CHOOSE r \in { Prepared(new_nr_samples) :
                         new_nr_samples \in {DblToU32[dbl.product, mode]} } : TRUE

---------------------------------------------------------------------------
(* Conversions between the int8 and the 8 x int16 layout *)

\* (int8_t)srcData for an int16_t srcData: the low 8 bits
Narrow8(x) == IF x = Indeterminate THEN Indeterminate ELSE ((x + 128) % 256) - 128

prepare_NeonAlignedBuffer(src, dst) ==
    IF src.value_type # "TR_analog_sint8" \/ src.bitwidth # 8 THEN [ret |-> -1, dst |-> dst]
    ELSE LET d == alloc_RawTimelineValuesBuf(
                      [dst EXCEPT !.time_exponent = src.time_exponent,
                                  !.time_step = src.time_step],
                      src.nr_of_samples, SimdLanes, 16, 16, "TR_SIMD_sint16x8")
         IN  [ret |-> IF d.valueBuffer.null THEN -1 ELSE 0, dst |-> d]

RECURSIVE ToNeonLoop_unsigned(_, _, _, _, _, _)
\* the loop of convert_to_NeonAlignedBuffer reading the source through a uint8_t
\* pointer: the value is zero-extended instead of sign-extended
ToNeonLoop_unsigned(src, dst, vb, srcChannel, dstChannel, i) ==
    IF i >= src.nr_of_samples THEN [ret |-> 0, vb |-> vb]
    ELSE LET so == getSampleByteOffset(src, i, srcChannel)
             do == getSampleByteOffset(dst, i, dstChannel)
             v  == Cell(src, so.offset)
         IN  IF so.ret # 0 \/ do.ret # 0 THEN [ret |-> -1, vb |-> vb]
             ELSE ToNeonLoop_unsigned(
                      src, dst,
                      Store(vb, 2, do.offset \div 2,
                            IF v = Indeterminate THEN v ELSE (v + 256) % 256),
                      srcChannel, dstChannel, i + 1)

RECURSIVE ToNeonLoop(_, _, _, _, _, _)
\* the loop of convert_to_NeonAlignedBuffer: *(int16_t*)&dst[dstOffset] = (int8_t)src[srcOffset]
ToNeonLoop(src, dst, vb, srcChannel, dstChannel, i) ==
    IF i >= src.nr_of_samples THEN [ret |-> 0, vb |-> vb]
    ELSE LET so == getSampleByteOffset(src, i, srcChannel)
             do == getSampleByteOffset(dst, i, dstChannel)
         IN  IF so.ret # 0 \/ do.ret # 0 THEN [ret |-> -1, vb |-> vb]
             ELSE ToNeonLoop(src, dst, Store(vb, 2, do.offset \div 2, Cell(src, so.offset)),
                             srcChannel, dstChannel, i + 1)

convert_to_NeonAlignedBuffer(src, dst, srcChannel, dstChannel) ==
    IF \/ src.value_type # "TR_analog_sint8" \/ src.bitwidth # 8
       \/ dst.value_type # "TR_SIMD_sint16x8" \/ dst.bitwidth # 16
       \/ dst.nr_of_samples # src.nr_of_samples \/ dst.nr_of_channels > 8
    THEN [ret |-> -1, dst |-> dst]
    ELSE LET r == ToNeonLoop(src, dst, dst.valueBuffer, srcChannel, dstChannel, 0)
         IN  [ret |-> r.ret, dst |-> [dst EXCEPT !.valueBuffer = r.vb]]

RECURSIVE FromNeonLoop(_, _, _, _)
\* the loop of convert_from_NeonAlignedBuffer: src_array is an int16_t pointer and
\* dst_array an int8_t pointer, both indexed with the byte offsets
\*   dst_array[dstSampleOffset] = (int8_t)src_array[srcSampleOffset]
FromNeonLoop(src, dst, vb, i) ==
    IF i >= src.nr_of_samples THEN [ret |-> 0, vb |-> vb]
    ELSE LET so == getSampleByteOffset(src, i, 0)
             do == getSampleByteOffset(dst, i, 0)
         IN  IF so.ret # 0 \/ do.ret # 0 THEN [ret |-> -1, vb |-> vb]
             ELSE FromNeonLoop(src, dst, Store(vb, 1, do.offset, Narrow8(Cell(src, so.offset))),
                               i + 1)

convert_from_NeonAlignedBuffer(src, dst) ==
    IF \/ src.value_type # "TR_SIMD_sint16x8" \/ src.bitwidth # 16
       \/ dst.value_type # "TR_analog_sint8" \/ dst.bitwidth # 8
    THEN [ret |-> -1, dst |-> dst]
    ELSE LET r == FromNeonLoop(src, dst, dst.valueBuffer, 0)
         IN  [ret |-> r.ret,
              dst |-> IF r.ret = 0
                      THEN [dst EXCEPT !.valueBuffer = r.vb, !.nr_of_samples = src.nr_of_samples]
                      ELSE [dst EXCEPT !.valueBuffer = r.vb]]

---------------------------------------------------------------------------
(* Backend function tables *)

Builds == {"neon", "fallback"}

\* gTimelineBackendFunctionsC and gTimelineBackendFunctionsSIMD; the body of the
\* SIMD table is chosen by the preprocessor (NEON kernels, or the C kernels again).
BackendTable(table, bld) ==
    IF table = "C"
    THEN [name |-> "C Backend",
          convert_sample_rate_s16x8 |-> "convert_sample_rate_SIMD_s16x8_bresenham",
          aggregate_minmax_s8       |-> "aggregate_minmax_s8_c",
          aggregate_minmax_s16x8    |-> "aggregate_minmax_SIMD_s16x8_c"]
    ELSE IF bld = "neon"
    THEN [name |-> "Neon SIMD Backend",
          convert_sample_rate_s16x8 |-> "convert_sample_rate_SIMD_s16x8_bresenham_neon",
          aggregate_minmax_s8       |-> "aggregate_minmax_s8_neon",
          aggregate_minmax_s16x8    |-> "aggregate_minmax_SIMD_s16x8_neon"]
    ELSE [name |-> "Fallback C Backend",
          convert_sample_rate_s16x8 |-> "convert_sample_rate_SIMD_s16x8_bresenham",
          aggregate_minmax_s8       |-> "aggregate_minmax_s8_c",
          aggregate_minmax_s16x8    |-> "aggregate_minmax_SIMD_s16x8_c"]

---------------------------------------------------------------------------
(* Sample-rate conversion kernels for the 8 x int16 layout *)

\* vals[1..n] stored to p[base], ..., p[base+n-1] (base >= 0); the stores outside
\* the acquired bytes are not recorded
StoreMany(vb, es, base, vals) ==
    LET fit == Max2(0, Min2(Len(vals), vb.cap \div es - base))
        m   == Unwritten(vb.mem, base + fit)
    IN  IF fit = 0 THEN vb
        ELSE [vb EXCEPT !.mem = SubSeq(m, 1, base) \o SubSeq(vals, 1, fit)
                                  \o SubSeq(m, base + fit + 1, Len(m))]

\* C kernel: (int16_t)round((1.0 - frac) * v0 + frac * v1), frac = accum / scale
LerpC(v0, v1, accum, scale, mode) ==
    IF v0 = Indeterminate \/ v1 = Indeterminate THEN Indeterminate
    ELSE CastInt16(RoundHalfAway(v0 * (scale - accum) + v1 * accum, scale), mode)

\* NEON kernel, one lane:
\*   frac_fixed = ((uint64_t)accum << 16) / scale; inv_frac_fixed = 0x10000 - frac_fixed
\*   vmovn_s32(vrshrq_n_s32(vmlaq_n_s32(vmulq_n_s32(v0, inv_frac_fixed), v1, frac_fixed), 16))
\* The 32-bit sum is v0*2^16 + frac_fixed*(v1 - v0) modulo 2^32; the rounding shift
\* and the narrowing keep bits 16..31 of (sum + 2^15).  frac_fixed*(v1 - v0) is
\* split at bit 8 so that no intermediate exceeds 31 bits.
LerpNeon(v0, v1, accum, scale) ==
    IF v0 = Indeterminate \/ v1 = Indeterminate THEN Indeterminate
    ELSE LET frac_fixed == (accum * Q16One) \div scale
             d  == v1 - v0
             hi == (frac_fixed \div 256) * d
             lo == (frac_fixed % 256) * d
         IN  Wrap16(v0 + ((hi + ((lo + 32768) \div 256)) \div 256))

\* the end of one loop iteration, on uint32_t:
\*   accum += step; if (accum >= scale) { idx0++; accum -= scale; }
\*   if (idx0 >= in_samples - 1) { idx0 = in_samples - 2; accum = 0; }
BresenhamStep(in_samples, out_samples, idx0, accum) ==
    LET acc1 == accum + in_samples
        idxA == IF acc1 >= out_samples THEN idx0 + 1 ELSE idx0
        accA == IF acc1 >= out_samples THEN acc1 - out_samples ELSE acc1
    IN  IF ~U32Less(idxA, in_samples - 1)
        THEN [idx0 |-> in_samples - 2, accum |-> 0]
        ELSE [idx0 |-> idxA, accum |-> accA]

\* idx0 and accum at the start of the iterations i, i + 1, ..., out_samples - 1 of
\* the loop for (i = 0; i < out_samples; ++i), one record per iteration
BresenhamTrace[in_samples \in Int, out_samples \in Int, i \in Int, idx0 \in Int, accum \in Int] ==
    IF i >= out_samples THEN <<>>
    ELSE <<[idx0 |-> idx0, accum |-> accum]>> \o
         BresenhamTrace[in_samples, out_samples, i + 1,
                        BresenhamStep(in_samples, out_samples, idx0, accum).idx0,
                        BresenhamStep(in_samples, out_samples, idx0, accum).accum]

RECURSIVE BresenhamLoop(_, _, _, _, _, _, _)
\* The loop for (i = 0; i < out_samples; ++i) shared by the C and the NEON kernel;
\* they differ in the per-lane interpolation only.  A load from src[idx0 * ch + j]
\* with a wrapped idx0 is outside the storage and yields an indeterminate value.
BresenhamLoop(neon, in, vb, out_samples, i, idx0, accum) ==
    IF i >= out_samples THEN vb
    ELSE LET in_samples == in.nr_of_samples
             ch   == in.nr_of_channels
             idx1 == IF U32Less(idx0 + 1, in_samples) THEN idx0 + 1 ELSE idx0
             row  == [j \in 1..ch |->
                        LET v0 == Cell(in, idx0 * ch + (j - 1))
                            v1 == Cell(in, idx1 * ch + (j - 1))
                        IN  IF neon.on THEN LerpNeon(v0, v1, accum, out_samples)
                            ELSE LerpC(v0, v1, accum, out_samples, neon.mode)]
             vb1  == StoreMany(vb, 2, i * ch, row)
             nxt  == BresenhamStep(in_samples, out_samples, idx0, accum)
         IN  BresenhamLoop(neon, in, vb1, out_samples, i + 1, nxt.idx0, nxt.accum)

convert_sample_rate_SIMD_s16x8_bresenham(in, out, mode) ==
    IF in.nr_of_channels # SimdLanes THEN [ret |-> -1, vb |-> out.valueBuffer]
    ELSE [ret |-> 0,
          vb |-> BresenhamLoop([on |-> FALSE, mode |-> mode], in, out.valueBuffer,
                               out.nr_of_samples, 0, 0, 0)]

convert_sample_rate_SIMD_s16x8_bresenham_neon(in, out) ==
    IF in.nr_of_channels # SimdLanes THEN [ret |-> -1, vb |-> out.valueBuffer]
    ELSE [ret |-> 0,
          vb |-> BresenhamLoop([on |-> TRUE, mode |-> "wrap"], in, out.valueBuffer,
                               out.nr_of_samples, 0, 0, 0)]

\* index_lower = (uint32_t)floor((double)i / rate_ratio)
IndexLower[i \in Int, rate_ratio \in Dbl, mode \in CastModes] ==
    DblToU32[DblDiv[DblFromU32[i], rate_ratio], mode]

\* convert_sample_rate_analog_sint8: floating-point interpolation on int8 samples;
\* the fraction original_index - index_lower is taken from the exact ratio num / den
convert_sample_rate_analog_sint8(in, out, mode) ==
    LET num == out.sample_rate_info.num
        den == out.sample_rate_info.den
        nch == in.nr_of_channels
        val(i, c, index_lower) ==
            LET index_upper == IF index_lower + 1 < in.nr_of_samples
                               THEN index_lower + 1 ELSE index_lower
                fnum == i * den - index_lower * num
                v1 == Cell(in, index_lower * nch + c)
                v2 == Cell(in, index_upper * nch + c)
            IN  IF v1 = Indeterminate \/ v2 = Indeterminate THEN Indeterminate
                ELSE RoundHalfAway(v1 * (num - fnum) + v2 * fnum, num)
        row(i) == CHOOSE r \in
                      { [c \in 1..nch |-> val(i, c - 1, index_lower)] :
                          index_lower \in {IndexLower[i, out.sample_rate_info.rate_ratio,
                                                      mode]} } : TRUE
        vals == [k \in 1..(out.nr_of_samples * nch) |->
                   row((k - 1) \div nch)[((k - 1) % nch) + 1]]
    IN  [ret |-> 0, vb |-> StoreMany(out.valueBuffer, 1, 0, vals)]

\* whether a conversion loads input samples: every iteration of a kernel's loop
\* over the output samples loads src[idx0 * ch + j] and src[idx1 * ch + j]
ReadsInput(in, out) ==
    /\ out.nr_of_samples > 0
    /\ in.value_type \in {"TR_analog_sint8", "TR_SIMD_sint16x8"}
    /\ in.value_type = "TR_SIMD_sint16x8" => in.nr_of_channels = SimdLanes

\* convert_sample_rate, with the function table it dispatches through
convert_sample_rate(in, out, table, bld, mode) ==
    IF in.value_type = "TR_analog_sint8"
    THEN convert_sample_rate_analog_sint8(in, out, mode)
    ELSE IF in.value_type = "TR_SIMD_sint16x8"
    THEN IF BackendTable(table, bld).convert_sample_rate_s16x8
              = "convert_sample_rate_SIMD_s16x8_bresenham_neon"
         THEN convert_sample_rate_SIMD_s16x8_bresenham_neon(in, out)
         ELSE convert_sample_rate_SIMD_s16x8_bresenham(in, out, mode)
    ELSE [ret |-> -1, vb |-> out.valueBuffer]

---------------------------------------------------------------------------
(* Min/max aggregation kernels *)

\* a < b ? a : b on values that may be indeterminate
MinV(a, b) == IF a = Indeterminate \/ b = Indeterminate THEN Indeterminate ELSE Min2(a, b)

MaxV(a, b) == IF a = Indeterminate \/ b = Indeterminate THEN Indeterminate ELSE Max2(a, b)

RECURSIVE ScanC(_, _, _, _, _, _)
\* for (j = start; j < end; ++j) of the C kernels: accessor failures are counted
ScanC(in, ch, width, j, end, acc) ==
    IF j >= end THEN acc
    ELSE LET g == getSampleValue(in, j, ch, width)
         IN  IF g.ret = 0
             THEN ScanC(in, ch, width, j + 1, end,
                        [acc EXCEPT !.min = MinV(@, g.value), !.max = MaxV(@, g.value)])
             ELSE ScanC(in, ch, width, j + 1, end, [acc EXCEPT !.failed = TRUE])

\* the lanes of a vector register, evaluated
Register(lanes) == SubSeq(lanes, 1, Len(lanes))

\* aggregate_minmax_SIMD_s16x8_c: a failed read is skipped; every channel stores
\* its own element i*channels + ch
aggregate_minmax_SIMD_s16x8_c(in, mn, mx, i, start, end) ==
    LET nch == in.nr_of_channels
        r   == Register([c \in 1..nch |->
                           ScanC(in, c - 1, 16, start, end,
                                 [min |-> INT16_MAX, max |-> INT16_MIN, failed |-> FALSE])])
    IN  [ret |-> 0,
         min |-> StoreMany(mn, 2, i * nch, [c \in 1..nch |-> r[c].min]),
         max |-> StoreMany(mx, 2, i * nch, [c \in 1..nch |-> r[c].max])]

\* aggregate_minmax_s8_c: a failed read returns -1 at once, so only the channels
\* before the first failing one have stored
aggregate_minmax_s8_c(in, mn, mx, i, start, end) ==
    LET nch  == in.nr_of_channels
        r    == Register([c \in 1..nch |->
                            ScanC(in, c - 1, 8, start, end,
                                  [min |-> INT8_MAX, max |-> INT8_MIN, failed |-> FALSE])])
        done == Cardinality({c \in 1..nch : \A d \in 1..c : ~r[d].failed})
    IN  [ret |-> IF done < nch THEN -1 ELSE 0,
         min |-> StoreMany(mn, 1, i * nch, [c \in 1..done |-> r[c].min]),
         max |-> StoreMany(mx, 1, i * nch, [c \in 1..done |-> r[c].max])]

RECURSIVE ScanNeon16(_, _, _, _, _)
\* vminq_s16 / vmaxq_s16 over vld1q_s16(p + j*channels + ch), j = start..end-1
ScanNeon16(in, base, j, end, acc) ==
    IF j >= end THEN acc
    ELSE ScanNeon16(in, base, j + 1, end,
           [min |-> [l \in 1..SimdLanes |->
                       MinV(acc.min[l], Cell(in, j * in.nr_of_channels + base + l - 1))],
            max |-> [l \in 1..SimdLanes |->
                       MaxV(acc.max[l], Cell(in, j * in.nr_of_channels + base + l - 1))]])

\* aggregate_minmax_SIMD_s16x8_neon: for every ch an 8-lane load at element
\* j*channels + ch and an 8-lane store at element i*channels + ch.  The stores of
\* ch = 0, 1, ... overlap; element i*channels + x keeps the lane written by the
\* last store that covers it, the one of ch = min(x, channels - 1).
aggregate_minmax_SIMD_s16x8_neon(in, mn, mx, i, start, end) ==
    LET nch  == in.nr_of_channels
        vec  == [c \in 1..nch |->
                   ScanNeon16(in, c - 1, start, end,
                              [min |-> [l \in 1..SimdLanes |-> INT16_MAX],
                               max |-> [l \in 1..SimdLanes |-> INT16_MIN]])]
        writer(x) == Min2(x, nch - 1)
        span == nch - 1 + SimdLanes
    IN  IF nch = 0 THEN [ret |-> 0, min |-> mn, max |-> mx]
        ELSE [ret |-> 0,
              min |-> StoreMany(mn, 2, i * nch,
                        [x \in 1..span |-> vec[writer(x - 1) + 1].min[x - writer(x - 1)]]),
              max |-> StoreMany(mx, 2, i * nch,
                        [x \in 1..span |-> vec[writer(x - 1) + 1].max[x - writer(x - 1)]])]

RECURSIVE ScanNeon8(_, _, _, _, _)
\* for (j = start; j < end; j += 16): a full block is one 16-byte load at
\* j*channels + ch; a shorter tail is gathered into a zero-initialised tmp[16]
ScanNeon8(in, ch, j, end, acc) ==
    IF j >= end THEN acc
    ELSE LET remaining == end - j
             vals == Register([l \in 1..NeonBlock |->
                        IF remaining >= NeonBlock
                        THEN Cell(in, j * in.nr_of_channels + ch + l - 1)
                        ELSE IF l - 1 < remaining
                             THEN Cell(in, (j + l - 1) * in.nr_of_channels + ch)
                             ELSE 0])
         IN  ScanNeon8(in, ch, j + NeonBlock, end,
                [min |-> Register([l \in 1..NeonBlock |-> MinV(acc.min[l], vals[l])]),
                 max |-> Register([l \in 1..NeonBlock |-> MaxV(acc.max[l], vals[l])])])

RECURSIVE ReduceMin(_, _)
\* the scalar reduction of the 16 lanes, from tmp_min[0]
ReduceMin(vec, n) == IF n = 1 THEN vec[1] ELSE MinV(ReduceMin(vec, n - 1), vec[n])

RECURSIVE ReduceMax(_, _)
ReduceMax(vec, n) == IF n = 1 THEN vec[1] ELSE MaxV(ReduceMax(vec, n - 1), vec[n])

\* aggregate_minmax_s8_neon: every channel stores its own element i*channels + ch
aggregate_minmax_s8_neon(in, mn, mx, i, start, end) ==
    LET nch == in.nr_of_channels
        r   == Register([c \in 1..nch |->
                           ScanNeon8(in, c - 1, start, end,
                                     [min |-> [l \in 1..NeonBlock |-> INT8_MAX],
                                      max |-> [l \in 1..NeonBlock |-> INT8_MIN]])])
    IN  [ret |-> 0,
         min |-> StoreMany(mn, 1, i * nch, [c \in 1..nch |-> ReduceMin(r[c].min, NeonBlock)]),
         max |-> StoreMany(mx, 1, i * nch, [c \in 1..nch |-> ReduceMax(r[c].max, NeonBlock)])]

\* a call through a fn_aggregate_minmax pointer
CallMinMax(fn, in, mn, mx, i, start, end) ==
    CASE fn = "aggregate_minmax_s8_c"            -> aggregate_minmax_s8_c(in, mn, mx, i, start, end)
      [] fn = "aggregate_minmax_SIMD_s16x8_c"    -> aggregate_minmax_SIMD_s16x8_c(in, mn, mx, i, start, end)
      [] fn = "aggregate_minmax_s8_neon"         -> aggregate_minmax_s8_neon(in, mn, mx, i, start, end)
      [] fn = "aggregate_minmax_SIMD_s16x8_neon" -> aggregate_minmax_SIMD_s16x8_neon(in, mn, mx, i, start, end)

---------------------------------------------------------------------------
(* prepare_AggregationMinMax and aggregate_MinMax *)

prepare_AggregationMinMax(in, mn, mx, outSampleNr) ==
    IF in.value_type # "TR_analog_sint8" /\ in.value_type # "TR_SIMD_sint16x8"
    THEN [ret |-> -1, min |-> mn, max |-> mx]
    ELSE LET setup(b) ==
                 alloc_RawTimelineValuesBuf(
                     [b EXCEPT !.time_exponent = in.time_exponent,
                               !.time_step = in.time_step],
                     outSampleNr, in.nr_of_channels, in.bitwidth,
                     in.bytes_per_sample, in.value_type)
             mn1 == setup(mn)
             mx1 == setup(mx)
         IN  [ret |-> IF ~mn1.valueBuffer.null /\ ~mx1.valueBuffer.null THEN 0 ELSE -1,
              min |-> mn1, max |-> mx1]

\* in_samples = (inSamples > 0) ? inSamples : input->nr_of_samples
WindowSamples(in, inSamples) == IF inSamples > 0 THEN inSamples ELSE in.nr_of_samples

\* start = inOffset + floorf(i * stride_f), stride_f = in_samples / out_samples
BinStart(i, in_samples, out_samples, inOffset) ==
    inOffset + (i * in_samples) \div out_samples

\* end = inOffset + floorf((i+1) * stride_f), then the two adjustments
BinEnd(i, in_samples, out_samples, inOffset) ==
    LET start == BinStart(i, in_samples, out_samples, inOffset)
        e0 == inOffset + ((i + 1) * in_samples) \div out_samples
        e1 == IF e0 <= start THEN start + 1 ELSE e0
    IN  IF e1 > inOffset + in_samples THEN inOffset + in_samples ELSE e1

RECURSIVE AggregateLoop(_, _, _, _, _, _, _, _, _)
\* for (i = 0; i < out_samples; ++i) minmax_fn(...): the return value is dropped
AggregateLoop(fn, in, mn, mx, i, out_samples, in_samples, inOffset, rets) ==
    IF i >= out_samples THEN [ret |-> 0, min |-> mn, max |-> mx, rets |-> rets]
    ELSE LET r == CallMinMax(fn, in, mn, mx, i,
                             BinStart(i, in_samples, out_samples, inOffset),
                             BinEnd(i, in_samples, out_samples, inOffset))
         IN  AggregateLoop(fn, in, r.min, r.max, i + 1, out_samples, in_samples, inOffset,
                           Append(rets, r.ret))

aggregate_MinMax(in, mn, mx, inSamples, inOffset, table, bld) ==
    IF in.value_type # "TR_analog_sint8" /\ in.value_type # "TR_SIMD_sint16x8"
    THEN [ret |-> -1, min |-> mn.valueBuffer, max |-> mx.valueBuffer, rets |-> <<>>]
    ELSE LET fn == IF in.value_type = "TR_analog_sint8"
                   THEN BackendTable(table, bld).aggregate_minmax_s8
                   ELSE BackendTable(table, bld).aggregate_minmax_s16x8
         IN  AggregateLoop(fn, in, mn.valueBuffer, mx.valueBuffer, 0, mn.nr_of_samples,
                           WindowSamples(in, inSamples), inOffset, <<>>)

---------------------------------------------------------------------------
(* BackendRegistry: setBackend, getBackendName *)

\* setBackend with its range check off by one: index 2 installs the SIMD table
setBackend_offByOne(table, index) ==
    IF index > 2 THEN [ret |-> -1, table |-> table]
    ELSE IF index = 0 THEN [ret |-> 0, table |-> "C"]
    ELSE [ret |-> 0, table |-> "SIMD"]

setBackend(table, index) ==
    IF index > 1 THEN [ret |-> -1, table |-> table]
    ELSE IF index = 0 THEN [ret |-> 0, table |-> "C"]
    ELSE [ret |-> 0, table |-> "SIMD"]

\* getBackendName(uint8_t index, &name); getBackendName(-1, ...) passes 255
getBackendName(table, bld, index) ==
    CASE index = 0 -> [ret |-> 0, name |-> "C Backend"]
      [] index = 1 -> [ret |-> 0, name |-> "SIMD Backend"]
      [] OTHER     -> [ret |-> 0, name |-> BackendTable(table, bld).name]

CurrentIndex == 255

---------------------------------------------------------------------------
(* Inputs *)

\* 8-lane samples an 8 x int16 input is populated with
SampleVectors ==
    << <<0,     100,    -32764, 32767,  7, 0, 0, -1>>,
       <<100,   200,    -32767, -32768, 7, 0, 0,  1>>,
       <<32767, -32768, 0,      0,      7, 0, 0,  0>> >>

RECURSIVE Flatten(_)
Flatten(rows) == IF rows = <<>> THEN <<>> ELSE Head(rows) \o Flatten(Tail(rows))

\* a populated buffer: allocated by alloc_RawTimelineValuesBuf, every sample written,
\* time base 1 us per sample (time_step = 1, time_exponent = -6)
Populated(n, nch, bitwidth, alignment, vtype, cells) ==
    LET b == alloc_RawTimelineValuesBuf(InitBuf, n, nch, bitwidth, alignment, vtype)
    IN  [b EXCEPT !.time_step = 1, !.time_exponent = -6,
                  !.valueBuffer = StoreMany(@, bitwidth \div 8, 0, cells)]

\* sample k of an input takes SampleVectors[pick[k]]; the picks walk the vectors
\* cyclically from any start
Picks(n) ==
    { [k \in 1..n |-> ((start + k - 1) % Len(SampleVectors)) + 1] :
        start \in 0..(Len(SampleVectors) - 1) }

SimdInputs(minN, maxN) ==
    { Populated(Len(pick), SimdLanes, 16, 16, "TR_SIMD_sint16x8",
                Flatten([k \in 1..Len(pick) |-> SampleVectors[pick[k]]])) :
        pick \in UNION {Picks(m) : m \in minN..maxN} }

\* int8 inputs of one or two channels; every channel alternates between two values
I8Cells(n, nch) ==
    { [k \in 1..(n * nch) |->
         IF ((k - 1) \div nch + ((k - 1) % nch) + phase) % 2 = 0 THEN 7 ELSE -5] :
        phase \in 0..1 }

I8Inputs(minN, maxN) ==
    UNION { { Populated(n, nch, 8, 1, "TR_analog_sint8", cells) : cells \in I8Cells(n, nch) } :
            n \in minN..maxN, nch \in 1..2 }

\* element k (0-based) of a filled buffer
FillValue(k) == ((k * 7) % 23) - 11

\* no aggregate_MinMax or convert_sample_rate call is in progress
Idle == [pc |-> "idle"]

NoCall == [op |-> "none", arg1 |-> 0, arg2 |-> 0, ret |-> 0, name |-> ""]

NoResult == [ret |-> 0, out |-> NullStorage, min |-> NullStorage, max |-> NullStorage,
             rets |-> <<>>]

NoAlloc == [done |-> FALSE, nr_of_samples |-> <<0, 0, 0>>, nr_of_channels |-> 0,
            bitwidth |-> 0, bytealignment |-> 0, bytes_per_sample |-> 0,
            buffer_size |-> <<0, 0, 0>>, acquired |-> <<0, 0, 0>>]

---------------------------------------------------------------------------
(* Actions *)

SetBackend(index) ==
    LET r == setBackend(g_TimelineBackendFunctions, index)
    IN  /\ g_TimelineBackendFunctions' = r.table
        /\ selected' = IF index \in {0, 1} THEN index ELSE selected
        /\ last' = [NoCall EXCEPT !.op = "setBackend", !.arg1 = index, !.ret = r.ret]
        /\ UNCHANGED <<call, build, input, output, outMin, outMax, perBackend, allocReq,
                   neon_buf, narrow_buf>>

GetBackendName(index) ==
    LET r == getBackendName(g_TimelineBackendFunctions, build, index)
    IN  /\ last' = [NoCall EXCEPT !.op = "getBackendName", !.arg1 = index,
                                  !.ret = r.ret, !.name = r.name]
        /\ UNCHANGED <<call, build, g_TimelineBackendFunctions, input, output, outMin, outMax,
                       perBackend, selected, allocReq,
                   neon_buf, narrow_buf>>

GetEngineeringSampleRateFrequency ==
    /\ \E r \in {getEngineeringSampleRateFrequency(input)} :
         last' = [NoCall EXCEPT !.op = "getEngineeringSampleRateFrequency",
                                !.ret = r.freq_val, !.name = r.freq_unit]
    /\ UNCHANGED <<call, build, g_TimelineBackendFunctions, input, output, outMin, outMax,
                   perBackend, selected, allocReq, neon_buf, narrow_buf>>

PrepareSRC(rate) ==
    /\ ~input.valueBuffer.null
    /\ \E dbl \in {PreparedDoubles(input, rate)}, mode \in CastModes :
         \E r \in {prepare_SampleRateConversion(input, rate, output, dbl, mode)} :
             /\ output' = r.out
             /\ last' = [NoCall EXCEPT !.op = "prepare_SampleRateConversion",
                                       !.arg1 = rate, !.ret = r.ret]
    /\ perBackend' = [C |-> NoResult, SIMD |-> NoResult]
    /\ UNCHANGED <<call, build, g_TimelineBackendFunctions, input, outMin, outMax, selected, allocReq,
                   neon_buf, narrow_buf>>

Convert ==
    /\ ~input.valueBuffer.null
    /\ ~output.valueBuffer.null
    /\ ~output.sample_rate_info.null
    /\ \E mode \in CastModes :
         LET rc == convert_sample_rate(input, output, "C", build, mode)
             rs == convert_sample_rate(input, output, "SIMD", build, mode)
             r  == IF g_TimelineBackendFunctions = "C" THEN rc ELSE rs
         IN  /\ output' = [output EXCEPT !.valueBuffer = r.vb]
             /\ perBackend' = [C    |-> [NoResult EXCEPT !.ret = rc.ret, !.out = rc.vb],
                               SIMD |-> [NoResult EXCEPT !.ret = rs.ret, !.out = rs.vb]]
             /\ last' = [op |-> "convert_sample_rate", arg1 |-> 0, arg2 |-> 0,
                         ret |-> r.ret, name |-> "", reads |-> ReadsInput(input, output)]
    /\ UNCHANGED <<call, build, g_TimelineBackendFunctions, input, outMin, outMax, selected, allocReq,
                   neon_buf, narrow_buf>>

\* The steps of one aggregate_MinMax call of a thread while setBackend may run on
\* another thread between any two of them.  `table` notes which table was active
\* when the call read its kernel from it.

\* the kernel of an iteration when the table is read again in every iteration
BinKernel_reloaded(c, in, table, bld) ==
    IF in.value_type = "TR_analog_sint8" THEN BackendTable(table, bld).aggregate_minmax_s8
    ELSE BackendTable(table, bld).aggregate_minmax_s16x8

\* the kernel of an iteration: the local variable minmax_fn
BinKernel(c, in, table, bld) == c.minmax_fn

\* the checks, minmax_fn = g_TimelineBackendFunctions->aggregate_minmax_..., and
\* in_samples, out_samples
AggregateBegin(inSamples, inOffset) ==
    /\ call = Idle
    /\ ~input.valueBuffer.null
    /\ ~outMin.valueBuffer.null
    /\ ~outMax.valueBuffer.null
    /\ input.value_type \in {"TR_analog_sint8", "TR_SIMD_sint16x8"}
    /\ call' = [pc |-> "aggregate_MinMax",
                minmax_fn |-> BinKernel_reloaded(Idle, input, g_TimelineBackendFunctions,
                                                 build),
                table |-> g_TimelineBackendFunctions,
                in_samples |-> WindowSamples(input, inSamples),
                out_samples |-> outMin.nr_of_samples,
                inOffset |-> inOffset, i |-> 0, kernels |-> <<>>]
    /\ UNCHANGED <<build, g_TimelineBackendFunctions, input, output, outMin, outMax, last,
                   perBackend, selected, allocReq, neon_buf, narrow_buf>>

\* one iteration of for (i = 0; i < out_samples; ++i): minmax_fn(input, outMin,
\* outMax, i, start, end)
AggregateBin ==
    /\ call.pc = "aggregate_MinMax"
    /\ call.i < call.out_samples
    /\ \E fn \in {BinKernel(call, input, g_TimelineBackendFunctions, build)} :
         /\ \E r \in {CallMinMax(fn, input, outMin.valueBuffer, outMax.valueBuffer, call.i,
                                  BinStart(call.i, call.in_samples, call.out_samples,
                                           call.inOffset),
                                  BinEnd(call.i, call.in_samples, call.out_samples,
                                         call.inOffset))} :
              /\ outMin' = [outMin EXCEPT !.valueBuffer = r.min]
              /\ outMax' = [outMax EXCEPT !.valueBuffer = r.max]
         /\ call' = [call EXCEPT !.i = @ + 1, !.kernels = Append(@, fn)]
    /\ UNCHANGED <<build, g_TimelineBackendFunctions, input, output, last, perBackend,
                   selected, allocReq, neon_buf, narrow_buf>>

\* the loop has ended: return 0
AggregateReturn ==
    /\ call.pc = "aggregate_MinMax"
    /\ call.i >= call.out_samples
    /\ call' = Idle
    /\ last' = [NoCall EXCEPT !.op = "aggregate_MinMax", !.arg1 = call.in_samples,
                              !.arg2 = call.inOffset]
    /\ UNCHANGED <<build, g_TimelineBackendFunctions, input, output, outMin, outMax,
                   perBackend, selected, allocReq, neon_buf, narrow_buf>>

\* convert_sample_rate reads the kernel from the active table (the int8 kernel is
\* called directly) ...
ConvertBegin ==
    /\ call = Idle
    /\ ~input.valueBuffer.null
    /\ ~output.valueBuffer.null
    /\ ~output.sample_rate_info.null
    /\ input.value_type \in {"TR_analog_sint8", "TR_SIMD_sint16x8"}
    /\ call' = [pc |-> "convert_sample_rate", table |-> g_TimelineBackendFunctions,
                kernels |-> <<>>]
    /\ UNCHANGED <<build, g_TimelineBackendFunctions, input, output, outMin, outMax, last,
                   perBackend, selected, allocReq, neon_buf, narrow_buf>>

\* ... and calls it: one kernel call produces every output sample, and no kernel
\* reads g_TimelineBackendFunctions
ConvertRun ==
    /\ call.pc = "convert_sample_rate"
    /\ \E mode \in CastModes :
         \E rc \in {convert_sample_rate(input, output, "C", build, mode)},
            rs \in {convert_sample_rate(input, output, "SIMD", build, mode)} :
             /\ output' = [output EXCEPT !.valueBuffer =
                               IF call.table = "C" THEN rc.vb ELSE rs.vb]
             /\ perBackend' = [C    |-> [NoResult EXCEPT !.ret = rc.ret, !.out = rc.vb],
                               SIMD |-> [NoResult EXCEPT !.ret = rs.ret, !.out = rs.vb]]
             /\ last' = [NoCall EXCEPT !.op = "convert_sample_rate",
                                       !.ret = IF call.table = "C" THEN rc.ret ELSE rs.ret,
                                       !.name = call.table]
    /\ call' = Idle
    /\ UNCHANGED <<build, g_TimelineBackendFunctions, input, outMin, outMax, selected,
                   allocReq, neon_buf, narrow_buf>>

PrepareAgg(outSampleNr) ==
    /\ ~input.valueBuffer.null
    /\ LET r == prepare_AggregationMinMax(input, outMin, outMax, outSampleNr)
       IN  /\ outMin' = r.min
           /\ outMax' = r.max
           /\ last' = [NoCall EXCEPT !.op = "prepare_AggregationMinMax",
                                     !.arg1 = outSampleNr, !.ret = r.ret]
    /\ perBackend' = [C |-> NoResult, SIMD |-> NoResult]
    /\ UNCHANGED <<call, build, g_TimelineBackendFunctions, input, output, selected, allocReq,
                   neon_buf, narrow_buf>>

Aggregate(inSamples, inOffset) ==
    /\ ~input.valueBuffer.null
    /\ ~outMin.valueBuffer.null
    /\ ~outMax.valueBuffer.null
    /\ LET rc == aggregate_MinMax(input, outMin, outMax, inSamples, inOffset, "C", build)
           rs == aggregate_MinMax(input, outMin, outMax, inSamples, inOffset, "SIMD", build)
           r  == IF g_TimelineBackendFunctions = "C" THEN rc ELSE rs
           res(x) == [NoResult EXCEPT !.ret = x.ret, !.min = x.min, !.max = x.max,
                                      !.rets = x.rets]
       IN  /\ outMin' = [outMin EXCEPT !.valueBuffer = r.min]
           /\ outMax' = [outMax EXCEPT !.valueBuffer = r.max]
           /\ perBackend' = [C |-> res(rc), SIMD |-> res(rs)]
           /\ last' = [NoCall EXCEPT !.op = "aggregate_MinMax", !.arg1 = inSamples,
                                     !.arg2 = inOffset, !.ret = r.ret]
    /\ UNCHANGED <<call, build, g_TimelineBackendFunctions, input, output, selected, allocReq,
                   neon_buf, narrow_buf>>

\* alloc_RawTimelineValuesBuf with full-width arguments: the sizes it computes
AllocWide(samplesW, nr_of_channels, bitwidth, bytealignment) ==
    LET bps  == BytesPerSample(nr_of_channels, bitwidth)
        size == BufferSize(samplesW, nr_of_channels, bps)
    IN  /\ allocReq' = [done |-> TRUE, nr_of_samples |-> samplesW,
                        nr_of_channels |-> nr_of_channels, bitwidth |-> bitwidth,
                        bytealignment |-> bytealignment, bytes_per_sample |-> bps,
                        buffer_size |-> size,
                        acquired |-> AcquiredBytes(size, bytealignment)]
        /\ last' = [NoCall EXCEPT !.op = "alloc_RawTimelineValuesBuf"]
        /\ UNCHANGED <<call, build, g_TimelineBackendFunctions, input, output, outMin, outMax,
                       perBackend, selected, neon_buf, narrow_buf>>

\* alloc_RawTimelineValuesBuf on the input, followed by the caller's time base
\* (1 us per sample), as devtest.c sets up simd_input
AllocInput(nr_of_samples, nr_of_channels, bitwidth, bytealignment, value_type) ==
    /\ input.valueBuffer.null
    /\ input' = [alloc_RawTimelineValuesBuf(input, nr_of_samples, nr_of_channels, bitwidth,
                                            bytealignment, value_type)
                    EXCEPT !.time_step = 1, !.time_exponent = -6]
    /\ last' = [NoCall EXCEPT !.op = "alloc_RawTimelineValuesBuf", !.arg1 = nr_of_samples,
                              !.arg2 = nr_of_channels]
    /\ UNCHANGED <<call, build, g_TimelineBackendFunctions, output, outMin, outMax, perBackend,
                   selected, allocReq,
                   neon_buf, narrow_buf>>

\* the caller writes every sample of the input through a typed pointer
FillInput ==
    /\ ~input.valueBuffer.null
    /\ input' = [input EXCEPT !.valueBuffer =
                    StoreMany(@, ElemBytes(input), 0,
                              [k \in 1..(input.nr_of_samples * input.nr_of_channels) |->
                                 FillValue(k - 1)])]
    /\ last' = [NoCall EXCEPT !.op = "fill"]
    /\ UNCHANGED <<call, build, g_TimelineBackendFunctions, output, outMin, outMax, perBackend,
                   selected, allocReq,
                   neon_buf, narrow_buf>>

\* one typed accessor call; `before` is what the caller's variable held
GetSampleValue(width, sample_index, channel, before) ==
    LET r == getSampleValue(input, sample_index, channel, width)
    IN  /\ last' = [op |-> "getSampleValue", arg1 |-> sample_index, arg2 |-> channel,
                    ret |-> r.ret, name |-> "", width |-> width, before |-> before,
                    value |-> IF r.ret = 0 THEN r.value ELSE before]
        /\ UNCHANGED <<call, build, g_TimelineBackendFunctions, input, output, outMin, outMax,
                       perBackend, selected, allocReq,
                   neon_buf, narrow_buf>>

FreeInput ==
    /\ input' = free_RawTimelineValuesBuf(input)
    /\ last' = [NoCall EXCEPT !.op = "free_RawTimelineValuesBuf", !.name = "input"]
    /\ UNCHANGED <<call, build, g_TimelineBackendFunctions, output, outMin, outMax, perBackend,
                   selected, allocReq,
                   neon_buf, narrow_buf>>

FreeOutput ==
    /\ output' = free_RawTimelineValuesBuf(output)
    /\ last' = [NoCall EXCEPT !.op = "free_RawTimelineValuesBuf", !.name = "output"]
    /\ UNCHANGED <<call, build, g_TimelineBackendFunctions, input, outMin, outMax, perBackend,
                   selected, allocReq,
                   neon_buf, narrow_buf>>

\* free_RawTimelineValuesBuf on one of the destination buffers; `before` is the
\* buffer as it was when the call was made
FreeBuf(name) ==
    /\ output'   = IF name = "output" THEN free_RawTimelineValuesBuf(output) ELSE output
    /\ outMin'   = IF name = "outMin" THEN free_RawTimelineValuesBuf(outMin) ELSE outMin
    /\ outMax'   = IF name = "outMax" THEN free_RawTimelineValuesBuf(outMax) ELSE outMax
    /\ neon_buf' = IF name = "neon_buf" THEN free_RawTimelineValuesBuf(neon_buf)
                   ELSE neon_buf
    /\ last' = [op |-> "free_RawTimelineValuesBuf", arg1 |-> 0, arg2 |-> 0, ret |-> 0,
                name |-> name,
                before |-> CASE name = "output" -> output
                             [] name = "outMin" -> outMin
                             [] name = "outMax" -> outMax
                             [] OTHER -> neon_buf]
    /\ UNCHANGED <<build, g_TimelineBackendFunctions, input, perBackend, selected, allocReq,
                   narrow_buf, call>>

\* screen_update of the viewer after a window resize, for one timeline buffer:
\* realloc_RawTimelineValuesBufs of min[0] and max[0], then
\* prepare_AggregationMinMax(bufs[0], min[0], max[0], g_screen_w)
ResizeView(new_w) ==
    /\ ~input.valueBuffer.null
    /\ ~outMin.valueBuffer.null
    /\ ~outMax.valueBuffer.null
    /\ \E r \in {prepare_AggregationMinMax(input,
                                            realloc_RawTimelineValuesBufs(outMin, new_w),
                                            realloc_RawTimelineValuesBufs(outMax, new_w),
                                            new_w)} :
         /\ outMin' = r.min
         /\ outMax' = r.max
         /\ last' = [NoCall EXCEPT !.op = "screen_update", !.arg1 = new_w, !.ret = r.ret]
    /\ UNCHANGED <<build, g_TimelineBackendFunctions, input, output, perBackend, selected,
                   allocReq, neon_buf, narrow_buf, call>>

PrepareNeon ==
    /\ ~input.valueBuffer.null
    /\ neon_buf.valueBuffer.null
    /\ LET r == prepare_NeonAlignedBuffer(input, neon_buf)
       IN  /\ neon_buf' = r.dst
           /\ last' = [NoCall EXCEPT !.op = "prepare_NeonAlignedBuffer", !.ret = r.ret]
    /\ UNCHANGED <<call, build, g_TimelineBackendFunctions, input, output, outMin, outMax,
                   perBackend, selected, allocReq, narrow_buf>>

\* `before` is the destination as it was when the call was made
ConvertToNeon(srcChannel, dstChannel) ==
    /\ ~input.valueBuffer.null
    /\ ~neon_buf.valueBuffer.null
    /\ LET r == convert_to_NeonAlignedBuffer(input, neon_buf, srcChannel, dstChannel)
       IN  /\ neon_buf' = r.dst
           /\ last' = [op |-> "convert_to_NeonAlignedBuffer", arg1 |-> srcChannel,
                       arg2 |-> dstChannel, ret |-> r.ret, name |-> "", before |-> neon_buf]
    /\ UNCHANGED <<call, build, g_TimelineBackendFunctions, input, output, outMin, outMax,
                   perBackend, selected, allocReq, narrow_buf>>

AllocNarrow(nr_of_samples, nr_of_channels) ==
    /\ narrow_buf.valueBuffer.null
    /\ narrow_buf' = alloc_RawTimelineValuesBuf(narrow_buf, nr_of_samples, nr_of_channels,
                                                8, 1, "TR_analog_sint8")
    /\ last' = [NoCall EXCEPT !.op = "alloc_RawTimelineValuesBuf", !.arg1 = nr_of_samples,
                              !.arg2 = nr_of_channels]
    /\ UNCHANGED <<call, build, g_TimelineBackendFunctions, input, output, outMin, outMax,
                   perBackend, selected, allocReq, neon_buf>>

ConvertFromNeon ==
    /\ ~neon_buf.valueBuffer.null
    /\ ~narrow_buf.valueBuffer.null
    /\ LET r == convert_from_NeonAlignedBuffer(neon_buf, narrow_buf)
       IN  /\ narrow_buf' = r.dst
           /\ last' = [op |-> "convert_from_NeonAlignedBuffer", arg1 |-> 0, arg2 |-> 0,
                       ret |-> r.ret, name |-> "", before |-> narrow_buf]
    /\ UNCHANGED <<call, build, g_TimelineBackendFunctions, input, output, outMin, outMax,
                   perBackend, selected, allocReq, neon_buf>>

---------------------------------------------------------------------------
(* Specifications *)

InitCommon ==
    /\ build \in Builds
    /\ g_TimelineBackendFunctions = "C"
    /\ output = InitBuf
    /\ outMin = InitBuf
    /\ outMax = InitBuf
    /\ last = NoCall
    /\ perBackend = [C |-> NoResult, SIMD |-> NoResult]
    /\ selected = -1
    /\ allocReq = NoAlloc
    /\ neon_buf = InitBuf
    /\ narrow_buf = InitBuf
    /\ call = Idle

\* Sample-rate conversion of an 8 x int16 input
Init ==
    /\ input \in SimdInputs(2, MaxSamples)
    /\ InitCommon

Next ==
    \/ \E index \in 0..1 : SetBackend(index)
    \/ \E rate \in Rates : PrepareSRC(rate)
    \/ Convert

Spec == Init /\ [][Next]_vars

\* Sample-rate conversion of an 8 x int16 input that holds fewer than 2 samples
InitShort ==
    /\ input \in SimdInputs(0, 1)
    /\ InitCommon

SpecShort == InitShort /\ [][Next]_vars

\* Min/max aggregation of int8 and 8 x int16 inputs
InitAgg ==
    /\ input \in I8Inputs(MaxAggSamples, MaxAggSamples)
               \cup SimdInputs(MaxAggSamples, MaxAggSamples)
    /\ InitCommon

\* The callers select the backend once at start-up, before any buffer is prepared
\* (devtest.c main, pcap24.c main).
NextAgg ==
    \/ \E index \in 0..1 : outMin.valueBuffer.null /\ SetBackend(index)
    \/ \E n \in 1..MaxBins : PrepareAgg(n)
    \/ \E inSamples \in 0..MaxAggSamples, inOffset \in 0..MaxOffset :
          Aggregate(inSamples, inOffset)

SpecAgg == InitAgg /\ [][NextAgg]_vars

\* The backend registry
InitBackend ==
    /\ input \in SimdInputs(2, 2)
    /\ InitCommon

NextBackend ==
    \/ \E index \in (0..MaxBackendIndex) \cup {CurrentIndex} : SetBackend(index)
    \/ \E index \in (0..MaxBackendIndex) \cup {CurrentIndex} : GetBackendName(index)

SpecBackend == InitBackend /\ [][NextBackend]_vars

\* Buffer allocation with full-width sample counts
SampleCounts ==
    { Wide(0, 0), Wide(0, 1), Wide(0, 1000), Wide(1, 0), Wide(256, 0),
      Wide(32768, 0), Wide(65535, 65535) }

ChannelCounts == {1, 2, 8, 32, 64, 255}

BitWidths == {8, 16, 24, 32, 64}

InitAlloc ==
    /\ input = InitBuf
    /\ InitCommon

NextAlloc ==
    \E samplesW \in SampleCounts, ch \in ChannelCounts, bw \in BitWidths, al \in {1, 16} :
        AllocWide(samplesW, ch, bw, al)

SpecAlloc == InitAlloc /\ [][NextAlloc]_vars

\* Buffer life cycle and typed access: allocate, fill, read, prepare a conversion, free
\* <<nr_of_channels, bitwidth, bytealignment, value_type>>
BufShapes ==
    { <<1, 8, 1, "TR_analog_sint8">>, <<2, 8, 1, "TR_analog_sint8">>,
      <<8, 16, 16, "TR_SIMD_sint16x8">>, <<4, 16, 16, "TR_SIMD_sint16x8">>,
      <<128, 16, 16, "TR_SIMD_sint16x8">>,
      <<1, 32, 1, "TR_analog_float32">>, <<64, 32, 1, "TR_analog_float32">> }

AccessorWidths == {8, 16, 32}

ProbeChannels == {0, 1, 8}

InitBuffers ==
    /\ input = InitBuf
    /\ InitCommon

\* A run sets its input up before it prepares a conversion of it (devtest.c main).
NextBuffers ==
    \/ \E n \in 0..MaxBufSamples, shape \in BufShapes :
          /\ output = InitBuf
          /\ AllocInput(n, shape[1], shape[2], shape[3], shape[4])
    \/ FillInput
    \/ \E width \in AccessorWidths, i \in 0..MaxBufSamples, c \in ProbeChannels :
          GetSampleValue(width, i, c, Indeterminate)
    \/ \E rate \in BufRates : output.valueBuffer.null /\ PrepareSRC(rate)
    \/ FreeInput
    \/ FreeOutput

SpecBuffers == InitBuffers /\ [][NextBuffers]_vars

\* Conversions of int8 and 8 x int16 inputs; between a prepare and a conversion the
\* caller may release the input and set up another one
MaxConvSamples == 3

ConvShapes == { <<1, 8, 1, "TR_analog_sint8">>, <<8, 16, 16, "TR_SIMD_sint16x8">> }

NextConvert ==
    \/ \E n \in 2..MaxConvSamples, shape \in ConvShapes :
          AllocInput(n, shape[1], shape[2], shape[3], shape[4])
    \/ last.op = "alloc_RawTimelineValuesBuf" /\ FillInput
    \/ \E rate \in BufRates :
          output.valueBuffer.null /\ last.op = "fill" /\ PrepareSRC(rate)
    \/ last.op \in {"prepare_SampleRateConversion", "fill"} /\ Convert
    \/ last.op \in {"prepare_SampleRateConversion", "convert_sample_rate"} /\ FreeInput
    \/ last.op = "convert_sample_rate" /\ FreeOutput

SpecConvert == InitBuffers /\ [][NextConvert]_vars

\* One thread aggregates and converts step by step while another calls setBackend
InitThreads ==
    /\ input \in I8Inputs(MaxAggSamples, MaxAggSamples)
               \cup SimdInputs(MaxAggSamples, MaxAggSamples)
    /\ InitCommon

NextThreads ==
    \/ \E index \in 0..1 : SetBackend(index)
    \/ \E n \in 1..MaxBins : call = Idle /\ outMin.valueBuffer.null /\ PrepareAgg(n)
    \/ \E rate \in BufRates : call = Idle /\ output.valueBuffer.null /\ PrepareSRC(rate)
    \/ AggregateBegin(0, 0)
    \/ AggregateBin
    \/ AggregateReturn
    \/ ConvertBegin
    \/ ConvertRun

SpecThreads == InitThreads /\ [][NextThreads]_vars

\* One-sample inputs of either kind, populated before the destinations are used
InitRegions ==
    /\ input \in I8Inputs(1, 1) \cup SimdInputs(1, 1)
    /\ InitCommon

\* Any sequence of prepare and free calls on the destination buffers, and the
\* viewer's resize
NextRegions ==
    \/ \E rate \in BufRates : PrepareSRC(rate)
    \/ \E n \in 1..MaxBins : PrepareAgg(n)
    \/ PrepareNeon
    \/ \E name \in {"output", "outMin", "outMax", "neon_buf"} : FreeBuf(name)
    \/ \E new_w \in 1..MaxBins : ResizeView(new_w)

SpecRegions == InitRegions /\ [][NextRegions]_vars

\* The 8 x int16 kernels on inputs whose channel count is not 8
ShapeChannels == {1, 4}

InitShape ==
    /\ input \in { Populated(MaxAggSamples, nch, 16, 16, "TR_SIMD_sint16x8",
                             [k \in 1..(MaxAggSamples * nch) |-> FillValue(k - 1)]) :
                     nch \in ShapeChannels }
    /\ InitCommon

NextShape ==
    \/ \E index \in 0..1 :
          outMin.valueBuffer.null /\ output.valueBuffer.null /\ SetBackend(index)
    \/ \E rate \in BufRates : PrepareSRC(rate)
    \/ Convert
    \/ \E n \in 1..MaxBins : PrepareAgg(n)
    \/ \E inSamples \in 0..MaxAggSamples, inOffset \in 0..MaxOffset :
          Aggregate(inSamples, inOffset)

SpecShape == InitShape /\ [][NextShape]_vars

\* Preparing conversions of inputs of 1 us and 5 us per sample
InitPrepare ==
    /\ input \in { [b EXCEPT !.time_step = time_step] :
                     b \in I8Inputs(0, MaxAggSamples) \cup SimdInputs(1, MaxAggSamples),
                     time_step \in PrepTimeSteps }
    /\ InitCommon

NextPrepare ==
    \/ \E rate \in PrepRates : PrepareSRC(rate)
    \/ FreeOutput

SpecPrepare == InitPrepare /\ [][NextPrepare]_vars

\* the time steps of SpecFrequency
FreqTimeSteps == {1, 2, 5, 10, 999, 1000}

\* Reading the sampling frequency of inputs of every time exponent of -15..3
InitFrequency ==
    /\ input \in { [b EXCEPT !.time_step = time_step, !.time_exponent = time_exponent] :
                     b \in I8Inputs(1, 1), time_step \in FreqTimeSteps,
                     time_exponent \in -15..3 }
    /\ InitCommon

NextFrequency == GetEngineeringSampleRateFrequency

SpecFrequency == InitFrequency /\ [][NextFrequency]_vars

\* the target rates of SpecTimeBase: the rates around which the exponent changes,
\* rates whose step is halfway between two integers, and rates of 2^31 and more
\* (-1294967296 is 3000000000 and -1 is 4294967295 as uint32_t)
TimeBaseRates ==
    {1, 2, 3, 16, 400, 999, 1000, 1001, 2000, 16000, 999999, 1000000, 1000001,
     999999999, 1000000000, 1000000001, 2000000000, -1294967296, -1}

\* Preparing conversions of a one-sample input of 1 ns per sample to these rates
InitTimeBase ==
    /\ input \in { [b EXCEPT !.time_exponent = -9] : b \in I8Inputs(1, 1) }
    /\ InitCommon

\* every behaviour prepares one conversion and may release its output
NextTimeBase ==
    \/ /\ last = NoCall
       /\ \E rate \in TimeBaseRates : PrepareSRC(rate)
    \/ /\ last.op = "prepare_SampleRateConversion"
       /\ FreeOutput

SpecTimeBase == InitTimeBase /\ [][NextTimeBase]_vars

\* Widening an int8 channel into a lane of an 8 x int16 buffer and narrowing back
NeonSrcChannels == {0, 1}

NeonDstChannels == {0, 7, 8}

InitNeon ==
    /\ input \in I8Inputs(MaxNeonSamples, MaxNeonSamples)
    /\ build \in Builds
    /\ g_TimelineBackendFunctions = "C"
    /\ output = InitBuf
    /\ outMin = InitBuf
    /\ outMax = InitBuf
    /\ last = NoCall
    /\ perBackend = [C |-> NoResult, SIMD |-> NoResult]
    /\ selected = -1
    /\ allocReq = NoAlloc
    /\ neon_buf \in {InitBuf} \cup SimdInputs(MaxNeonSamples, MaxNeonSamples)
    /\ narrow_buf = InitBuf
    /\ call = Idle

NextNeon ==
    \/ PrepareNeon
    \/ \E s \in NeonSrcChannels, d \in NeonDstChannels : ConvertToNeon(s, d)
    \/ \E n \in 1..MaxNeonSamples, nch \in 1..2 : AllocNarrow(n, nch)
    \/ ConvertFromNeon

SpecNeon == InitNeon /\ [][NextNeon]_vars

---------------------------------------------------------------------------
(* Properties *)

Abs(x) == IF x < 0 THEN 0 - x ELSE x

\* the buffer `buf` with the storage one backend produced
WithStorage(buf, vb) == [buf EXCEPT !.valueBuffer = vb]

Converted == last.op = "convert_sample_rate" /\ last.ret = 0

Aggregated == last.op = "aggregate_MinMax" /\ last.ret = 0

\* C1: identity resampling.  When the prepared output has as many samples as the
\* 8-channel int16 input (n >= 2), convert_sample_rate writes output[i, c] =
\* input[i, c] for every i in 0..n-1, the last one included, and every channel c.
C1_IdentityResampling ==
    (Converted /\ output.nr_of_samples = input.nr_of_samples) =>
        \A i \in 0..(input.nr_of_samples - 1), c \in 0..(SimdLanes - 1) :
            SampleAt(output, i, c) = SampleAt(input, i, c)

\* C2: integer-factor upsampling.  With output.nr_of_samples = k*n, k >= 2, every
\* output i is within 1 of the linear interpolation of the input at position i/k,
\* and every output whose position is at or beyond the last input sample n-1
\* equals the last input sample.
C2_IntegerFactorUpsampling ==
    LET n == input.nr_of_samples
        m == output.nr_of_samples
    IN  (Converted /\ m % n = 0 /\ m \div n >= 2) =>
            LET k == m \div n
            IN  \A i \in 0..(m - 1), c \in 0..(SimdLanes - 1) :
                    LET q == i \div k
                        r == i % k
                        y == SampleAt(output, i, c)
                    IN  IF q >= n - 1
                        THEN y = SampleAt(input, n - 1, c)
                        ELSE Abs(k * y - (SampleAt(input, q, c) * (k - r)
                                          + SampleAt(input, q + 1, c) * r)) <= k

\* C3: downsampling.  With output.nr_of_samples = m < n, output i is within 1 of
\* the linear interpolation between input[floor(i*n/m)] and input[floor(i*n/m)+1]
\* at the fractional part of i*n/m, for any input.
C3_Downsampling ==
    LET n == input.nr_of_samples
        m == output.nr_of_samples
    IN  (Converted /\ m >= 1 /\ m < n) =>
            \A i \in 0..(m - 1), c \in 0..(SimdLanes - 1) :
                LET q == (i * n) \div m
                    r == (i * n) % m
                    y == SampleAt(output, i, c)
                IN  Abs(m * y - (SampleAt(input, q, c) * (m - r)
                                 + SampleAt(input, q + 1, c) * r)) <= m

\* the window [start_i, end_i) of bin i in the last aggregate_MinMax call
LastBinStart(i) ==
    BinStart(i, WindowSamples(input, last.arg1), outMin.nr_of_samples, last.arg2)

LastBinEnd(i) ==
    BinEnd(i, WindowSamples(input, last.arg1), outMin.nr_of_samples, last.arg2)

\* the last call's window lies inside the input's valid samples
WindowInside == last.arg2 + WindowSamples(input, last.arg1) <= input.nr_of_samples

\* C4: aggregation preserves extrema.  After aggregate_MinMax over a window inside
\* the input's valid samples, outMin[i,c] is the minimum and outMax[i,c] the
\* maximum of input[j,c] over j in [start_i, end_i), for every bin and channel,
\* for int8 and for 8 x int16 inputs.
C4_ExtremaPreserved ==
    (Aggregated /\ WindowInside) =>
        \A i \in 0..(outMin.nr_of_samples - 1), c \in 0..(input.nr_of_channels - 1) :
            LET vals == {SampleAt(input, j, c) : j \in LastBinStart(i)..(LastBinEnd(i) - 1)}
            IN  /\ SampleAt(outMin, i, c) \in vals
                /\ SampleAt(outMax, i, c) \in vals
                /\ \A v \in vals : SampleAt(outMin, i, c) <= v /\ v <= SampleAt(outMax, i, c)

\* C5: after every aggregate_MinMax call that returns success, for any window
\* (also one that exceeds the input's sample count) and any number of bins,
\* outMin[i,c] <= outMax[i,c] for every bin and channel.
C5_MinNotAboveMax ==
    Aggregated =>
        \A i \in 0..(outMin.nr_of_samples - 1), c \in 0..(input.nr_of_channels - 1) :
            SampleAt(outMin, i, c) <= SampleAt(outMax, i, c)

\* C6: aggregate_MinMax under backend 0 and under backend 1 produces the same
\* outMin and outMax contents, for any input, window and number of bins.
C6_AggregationBackendsAgree ==
    last.op = "aggregate_MinMax" =>
        \A i \in 0..(outMin.nr_of_samples - 1), c \in 0..(input.nr_of_channels - 1) :
            /\ SampleAt(WithStorage(outMin, perBackend.C.min), i, c)
                 = SampleAt(WithStorage(outMin, perBackend.SIMD.min), i, c)
            /\ SampleAt(WithStorage(outMax, perBackend.C.max), i, c)
                 = SampleAt(WithStorage(outMax, perBackend.SIMD.max), i, c)

\* C7: for any 8 x int16 input and any prepared output length, the outputs written
\* by convert_sample_rate under backend 0 and under backend 1 differ by at most 1
\* in every sample and channel.
C7_ConversionBackendsWithinOne ==
    Converted =>
        \A i \in 0..(output.nr_of_samples - 1), c \in 0..(SimdLanes - 1) :
            Abs(SampleAt(WithStorage(output, perBackend.C.out), i, c)
                - SampleAt(WithStorage(output, perBackend.SIMD.out), i, c)) <= 1

\* C8: for any allocated buffer, bytes_per_sample = ceil(channels * bitwidth / 8) and
\* bytes_per_sample * nr_of_samples <= the bytes of storage acquired, with the
\* 8-bit field and the 32-bit product as the program computes them.
C8_StorageCoversSamples ==
    allocReq.done =>
        /\ allocReq.bytes_per_sample = (allocReq.nr_of_channels * allocReq.bitwidth + 7) \div 8
        /\ WLeq(WMulSmall(allocReq.nr_of_samples, allocReq.bytes_per_sample),
                allocReq.acquired)

\* C9: every entry of the interpolation plan built by prepare satisfies
\* idx0 <= idx1 < input.nr_of_samples, idx0 < input.nr_of_samples - 1 and
\* frac + inv_frac = 0x10000 with both read as the stored 16-bit values.
C9_PlanEntries ==
    (last.op = "prepare_SampleRateConversion" /\ last.ret = 0
       /\ ~output.prepared_data_src.null) =>
        \A k \in DOMAIN output.prepared_data_src.entries :
            LET e == output.prepared_data_src.entries[k]
            IN  /\ e.idx0 <= e.idx1
                /\ e.idx1 < input.nr_of_samples
                /\ e.idx0 < input.nr_of_samples - 1
                /\ e.frac + e.inv_frac = Q16One

\* the table the most recent setBackend call with index 0 or 1 selected
\* (the C table when there was none)
SelectedTable == IF selected = 1 THEN "SIMD" ELSE "C"

\* C10: the active function table is the C table initially; after any sequence of
\* setBackend calls it is the table of the most recent call with index 0 or 1, and
\* getBackendName for the current index returns that table's name; a call with an
\* index >= 2 returns failure and leaves the active table unchanged.
C10_ActiveBackend ==
    /\ g_TimelineBackendFunctions = SelectedTable
    /\ (last.op = "getBackendName" /\ last.arg1 = CurrentIndex) =>
           /\ last.ret = 0
           /\ last.name = BackendTable(SelectedTable, build).name
    /\ (last.op = "setBackend" /\ last.arg1 >= 2) => last.ret = -1
    /\ (last.op = "setBackend" /\ last.arg1 < 2) => last.ret = 0 /\ selected = last.arg1

\* the SIMD table is active and a later setBackend call with an invalid index failed
C10_Witness ==
    /\ last.op = "setBackend"
    /\ last.arg1 >= 2
    /\ last.ret = -1
    /\ selected = 1
    /\ g_TimelineBackendFunctions = "SIMD"

\* C11: a typed accessor returns failure and leaves *value unchanged when the
\* buffer's bitwidth differs from the accessor's width, when sample_index >=
\* nr_of_samples or when channel >= nr_of_channels; otherwise it returns success
\* with the value stored at byte offset sample_index * bytes_per_sample +
\* channel * bitwidth / 8, and that offset plus the value width does not exceed
\* the storage length.
C11_TypedAccessors ==
    last.op = "getSampleValue" =>
        LET bytes == last.width \div 8
            off   == last.arg1 * input.bytes_per_sample + (last.arg2 * input.bitwidth) \div 8
        IN  IF \/ input.bitwidth # last.width
               \/ last.arg1 >= input.nr_of_samples
               \/ last.arg2 >= input.nr_of_channels
            THEN last.ret = -1 /\ last.value = last.before
            ELSE /\ last.ret = 0
                 /\ last.value = Cell(input, off \div bytes)
                 /\ off + bytes <= input.valueBuffer.cap

\* C12: after free_RawTimelineValuesBuf the buffer equals the state
\* init_RawTimelineValuesBuf produces: storage, plan and rate-info references are
\* null and every metadata field is reset.
C12_FreeResets ==
    last.op = "free_RawTimelineValuesBuf" =>
        (IF last.name = "input" THEN input ELSE output) = InitBuf

\* C13: sample-rate conversion of an 8 x int16 input that holds fewer than 2
\* samples returns a failure status without reading any input sample.
C13_ShortInputRejected ==
    ( /\ last.op = "convert_sample_rate"
      /\ input.value_type = "TR_SIMD_sint16x8"
      /\ input.nr_of_channels = SimdLanes
      /\ input.nr_of_samples < 2 )
        => last.ret # 0 /\ ~last.reads

\* the return values of the per-bin kernel calls of the last aggregate_MinMax call
LastKernelRets == perBackend[g_TimelineBackendFunctions].rets

\* C14: aggregate_MinMax returns a failure status whenever a per-bin kernel call
\* it makes returns failure, and success only if every kernel call succeeded.
C14_KernelFailurePropagates ==
    last.op = "aggregate_MinMax" =>
        (last.ret = 0 <=> \A k \in 1..Len(LastKernelRets) : LastKernelRets[k] = 0)

\* C15: no partial output on failure; when convert_to_NeonAlignedBuffer or
\* convert_from_NeonAlignedBuffer returns failure, the sample data and the
\* sample count of its destination are what they were before the call.
C15_NoPartialOutput ==
    ( /\ last.op \in {"convert_to_NeonAlignedBuffer", "convert_from_NeonAlignedBuffer"}
      /\ last.ret # 0 )
        => LET dst == IF last.op = "convert_to_NeonAlignedBuffer" THEN neon_buf
                      ELSE narrow_buf
           IN  /\ dst.valueBuffer = last.before.valueBuffer
               /\ dst.nr_of_samples = last.before.nr_of_samples

\* C17: on success of convert_from_NeonAlignedBuffer, for every sample index i of
\* the source, dst[i] equals the low 8 bits of lane 0 of source sample i, and the
\* destination's sample count equals the source's.
C17_NarrowLaneZero ==
    (last.op = "convert_from_NeonAlignedBuffer" /\ last.ret = 0) =>
        /\ narrow_buf.nr_of_samples = neon_buf.nr_of_samples
        /\ \A i \in 0..(neon_buf.nr_of_samples - 1) :
              SampleAt(narrow_buf, i, 0) = Narrow8(SampleAt(neon_buf, i, 0))

\* the value a convert_to_NeonAlignedBuffer call was to write to element k of the
\* destination: the source sample for lane dstChannel, the former content elsewhere
WidenExpected(k) ==
    IF k % neon_buf.nr_of_channels = last.arg2
    THEN SampleAt(input, k \div neon_buf.nr_of_channels, last.arg1)
    ELSE Cell(last.before, k)

\* C18: on success of convert_to_NeonAlignedBuffer, for every sample i, lane
\* dstChannel of dst sample i equals the sign-extended src[i, srcChannel]; every
\* other lane of every dst sample and all dst metadata are unchanged.
C18_WidenChannel ==
    (last.op = "convert_to_NeonAlignedBuffer" /\ last.ret = 0) =>
        /\ [neon_buf EXCEPT !.valueBuffer = last.before.valueBuffer] = last.before
        /\ neon_buf.valueBuffer.cap = last.before.valueBuffer.cap
        /\ \A k \in 0..(neon_buf.nr_of_samples * neon_buf.nr_of_channels - 1) :
              Cell(neon_buf, k) = WidenExpected(k)

\* a negative source sample was written to lane 7 of a destination that holds
\* other values in its other lanes
C18_Witness ==
    /\ last.op = "convert_to_NeonAlignedBuffer"
    /\ last.ret = 0
    /\ last.arg2 = 7
    /\ \E i \in 0..(neon_buf.nr_of_samples - 1) :
          /\ SampleAt(input, i, last.arg1) < 0
          /\ SampleAt(input, i, last.arg1) # Indeterminate
          /\ SampleAt(neon_buf, i, 7) = SampleAt(input, i, last.arg1)
          /\ SampleAt(neon_buf, i, 0) \notin {Indeterminate, SampleAt(neon_buf, i, 7)}

\* C16: every backend kernel for the 8 x int16 layout (sample-rate conversion and
\* min/max aggregation, in both function tables) invoked on an input whose channel
\* count is not 8 returns failure and performs no store.
C16_BadShapeRejected ==
    [][ ( /\ input.value_type = "TR_SIMD_sint16x8"
          /\ input.nr_of_channels # SimdLanes
          /\ last'.op \in {"convert_sample_rate", "aggregate_MinMax"} )
        => /\ last'.op = "convert_sample_rate" =>
                \A t \in {"C", "SIMD"} :
                    /\ perBackend'[t].ret = -1
                    /\ perBackend'[t].out = output.valueBuffer
           /\ last'.op = "aggregate_MinMax" =>
                \A t \in {"C", "SIMD"} :
                    /\ \A k \in 1..Len(perBackend'[t].rets) : perBackend'[t].rets[k] = -1
                    /\ perBackend'[t].min = outMin.valueBuffer
                    /\ perBackend'[t].max = outMax.valueBuffer ]_vars

\* C19: a buffer allocated with the 8 x int16 layout (bit width 16) and a channel
\* count in 1..8 has bytes_per_sample 16 and buffer_size nr_of_samples * 16,
\* whatever its channel count.
C19_SimdStride ==
    ( /\ last.op = "alloc_RawTimelineValuesBuf"
      /\ last.ret = 0
      /\ input.value_type = "TR_SIMD_sint16x8"
      /\ input.bitwidth = 16
      /\ input.nr_of_channels \in 1..SimdLanes )
    => /\ input.bytes_per_sample = 16
       /\ input.buffer_size = input.nr_of_samples * 16

\* floor(nr_of_samples * rate * time_step * 10^time_exponent), in exact arithmetic
ExactCount(in, rate) ==
    IF in.time_exponent >= 0
    THEN in.nr_of_samples * rate * in.time_step * Pow10(in.time_exponent)
    ELSE (in.nr_of_samples * rate * in.time_step) \div Pow10(0 - in.time_exponent)

\* the double d is num / den up to a relative error of 2^-50
NearRatio(d, num, den) ==
    LET a == BigShl[BigMul[d.m, BigFromNat[den]], Max2(d.e, 0)]
        b == BigShl[BigFromNat[num], Max2(0 - d.e, 0)]
        diff == IF BigLess[a, b] THEN BigSub[b, a] ELSE BigSub[a, b]
    IN  ~BigLess[b, BigShl[diff, 50]]

\* C20: after a successful prepare_SampleRateConversion the output has
\* floor(input samples * target rate * time_step * 10^time_exponent) samples, the
\* value type, channel count and bit width of the input, and its sample_rate_info
\* holds the ratio target rate / source rate.
C20_PreparedCount ==
    (last.op = "prepare_SampleRateConversion" /\ last.ret = 0)
    => /\ output.nr_of_samples = ExactCount(input, last.arg1)
       /\ output.value_type = input.value_type
       /\ output.nr_of_channels = input.nr_of_channels
       /\ output.bitwidth = input.bitwidth
       /\ ~output.sample_rate_info.null
       /\ NearRatio(output.sample_rate_info.rate_ratio,
                    RateRatio(input, last.arg1).num, RateRatio(input, last.arg1).den)

\* the largest e of 15, 12, ..., -15, from e on, with (1 / rate) / 10^e >= 1, that
\* is with 10^(-e) >= rate, in exact arithmetic
ExactExponent[rate \in Int, e \in Int] ==
    IF e < -15 THEN e
    ELSE IF e <= 0 /\ ~BigLess[BigPow10[0 - e], BigFromU32[rate]] THEN e
    ELSE ExactExponent[rate, e - 3]

\* round((1 / rate) / 10^e) for e <= 0 in exact arithmetic, halves upwards
ExactStep[rate \in Int, e \in Int] ==
    CHOOSE step \in
        { IF BigLess[BigAdd[qr.r, qr.r], BigFromU32[rate]] THEN qr.q
          ELSE BigAdd[qr.q, <<1>>] :
            qr \in {BigDivMod[BigPow10[0 - e], BigFromU32[rate]]} } : TRUE

C22_EngineeringMantissa ==
    last.op = "getEngineeringSampleRateFrequency" =>
        \/ last.name = "PHz"
        \/ /\ DblLeq[DblFromU32[1], last.ret]
           /\ ~DblLeq[DblFromU32[1000], last.ret]

\* C23: after a successful prepare_NeonAlignedBuffer(src, dst), before any lane is
\* widened into it, dst is an 8-channel int16 buffer of 16 bytes per sample with
\* src's sample count, and every lane of it reads as zero
C23_PreparedLanesZero ==
    last.op = "prepare_NeonAlignedBuffer" /\ last.ret = 0 =>
        /\ neon_buf.value_type = "TR_SIMD_sint16x8"
        /\ neon_buf.nr_of_channels = SimdLanes
        /\ neon_buf.bytes_per_sample = 16
        /\ neon_buf.nr_of_samples = input.nr_of_samples
        /\ neon_buf.valueBuffer.cap >= input.nr_of_samples * 16
        /\ \A i \in 0..(input.nr_of_samples - 1), ch \in 0..(SimdLanes - 1) :
               Cell(neon_buf, i * SimdLanes + ch) = 0

\* C24: in the 8 x int16 conversion kernel the accumulator satisfies
\* 0 <= accum < scale (scale = the output's sample count) at the start of every
\* output iteration, for upsampling and downsampling alike
C24_AccumulatorBelowScale ==
    Converted /\ input.value_type = "TR_SIMD_sint16x8" =>
        \A trace \in {BresenhamTrace[input.nr_of_samples, output.nr_of_samples, 0, 0, 0]} :
            \A i \in DOMAIN trace :
                trace[i].accum >= 0 /\ trace[i].accum < output.nr_of_samples

\* C25: for an input of n >= 2 samples and any output length, every iteration of
\* the 8 x int16 kernel has idx0 <= n - 2 (so idx1 = idx0 + 1 <= n - 1), and every
\* iteration of the int8 kernel has index_lower <= n - 1 (so index_upper <= n - 1):
\* no sample at an index of n or more is read
C25_ReadsInBounds ==
    Converted /\ input.nr_of_samples >= 2 =>
        /\ input.value_type = "TR_SIMD_sint16x8" =>
             \A trace \in {BresenhamTrace[input.nr_of_samples, output.nr_of_samples,
                                         0, 0, 0]} :
                 \A i \in DOMAIN trace :
                     trace[i].idx0 >= 0 /\ trace[i].idx0 <= input.nr_of_samples - 2
        /\ input.value_type = "TR_analog_sint8" =>
             \A i \in 0..(output.nr_of_samples - 1), mode \in CastModes :
                 \A index_lower \in {IndexLower[i, output.sample_rate_info.rate_ratio,
                                                mode]} :
                     index_lower >= 0 /\ index_lower <= input.nr_of_samples - 1

\* the sub-range [start, end) aggregate_MinMax passes to the kernel for bin i of the
\* last call
LastBin(i) ==
    [start |-> BinStart(i, WindowSamples(input, last.arg1), outMin.nr_of_samples, last.arg2),
     end   |-> BinEnd(i, WindowSamples(input, last.arg1), outMin.nr_of_samples, last.arg2)]

\* C26: for in_samples >= 1 and bin_count >= 1 the sub-ranges [start_i, end_i) that
\* aggregate_MinMax passes to the kernel are non-empty, lie inside
\* [in_offset, in_offset + in_samples), are pairwise disjoint and ascending in i,
\* and together cover the window
C26_BinPartition ==
    Aggregated /\ outMin.nr_of_samples >= 1 /\ WindowSamples(input, last.arg1) >= 1 =>
        LET bins == outMin.nr_of_samples
            lo   == last.arg2
            hi   == last.arg2 + WindowSamples(input, last.arg1)
        IN  /\ \A i \in 0..(bins - 1) :
                 /\ LastBin(i).start < LastBin(i).end
                 /\ lo <= LastBin(i).start
                 /\ LastBin(i).end <= hi
            /\ \A i \in 0..(bins - 1), j \in 0..(bins - 1) :
                 i < j => LastBin(i).end <= LastBin(j).start
            /\ \A s \in lo..(hi - 1) :
                 \E i \in 0..(bins - 1) : LastBin(i).start <= s /\ s < LastBin(i).end

\* C27: a backend min/max kernel call for bin i, made on prepared outputs with the
\* kernel of the active function table, writes only the nr_of_channels entries of
\* bin i in outMin and outMax and leaves every entry of every other bin unchanged
C27_BinIndependence ==
    /\ ~input.valueBuffer.null
    /\ ~outMin.valueBuffer.null
    /\ ~outMax.valueBuffer.null
    /\ input.value_type \in {"TR_analog_sint8", "TR_SIMD_sint16x8"}
    => \A i \in 0..(outMin.nr_of_samples - 1) :
         \A r \in {CallMinMax(
                     IF input.value_type = "TR_analog_sint8"
                     THEN BackendTable(g_TimelineBackendFunctions, build).aggregate_minmax_s8
                     ELSE BackendTable(g_TimelineBackendFunctions, build).aggregate_minmax_s16x8,
                     input, outMin.valueBuffer, outMax.valueBuffer, i,
                     BinStart(i, input.nr_of_samples, outMin.nr_of_samples, 0),
                     BinEnd(i, input.nr_of_samples, outMin.nr_of_samples, 0))} :
           \A k \in 0..(outMin.nr_of_samples * input.nr_of_channels - 1) :
               k < i * input.nr_of_channels \/ k >= (i + 1) * input.nr_of_channels =>
                   /\ Cell(WithStorage(outMin, r.min), k) = Cell(outMin, k)
                   /\ Cell(WithStorage(outMax, r.max), k) = Cell(outMax, k)

\* C28: while an aggregate_MinMax call is in progress, every bin it has produced
\* so far came from the min/max kernel of the function table that was active when
\* the call selected its kernel, whatever setBackend calls other threads have made
\* since; the output of a convert_sample_rate call is what the kernel of the table
\* active at its selection (last.name) writes
C28_SingleTablePerCall ==
    /\ call.pc = "aggregate_MinMax" =>
         \A k \in DOMAIN call.kernels :
             call.kernels[k] = BinKernel_reloaded(call, input, call.table, build)
    /\ last.op = "convert_sample_rate" /\ last.name \in {"C", "SIMD"} =>
         output.valueBuffer = perBackend[last.name].out

\* both bins of a call are done and setBackend has changed the active table of a
\* NEON build since the call selected its kernel
C28_Witness ==
    /\ call.pc = "aggregate_MinMax"
    /\ Len(call.kernels) = 2
    /\ build = "neon"
    /\ g_TimelineBackendFunctions # call.table

\* C29: no call of init, alloc, prepare_SampleRateConversion,
\* prepare_AggregationMinMax, prepare_NeonAlignedBuffer or free, and no resize of
\* the viewer, leaves a region it or an earlier call acquired without a pointer to
\* it: allocating into a buffer that holds a region never drops that region
C29_NoOrphanedRegions ==
    [][RegionsDropped(last', output, outMin, outMax, neon_buf) = 0]_vars

\* the destination buffer a free_RawTimelineValuesBuf call was made on
FreedBuf ==
    CASE last.name = "output" -> output
      [] last.name = "outMin" -> outMin
      [] last.name = "outMax" -> outMax
      [] OTHER -> neon_buf

\* C30: free_RawTimelineValuesBuf is idempotent and releases no region twice: on
\* a buffer that was only initialised it releases nothing and changes nothing, and
\* after a call the buffer owns no region, so that a further call in a row
\* releases nothing and leaves the buffer as the single call did
C30_FreeIdempotent ==
    /\ Released(InitBuf) = 0
    /\ free_RawTimelineValuesBuf(InitBuf) = InitBuf
    /\ (last.op = "free_RawTimelineValuesBuf" /\ "before" \in DOMAIN last) =>
          /\ Released(FreedBuf) = 0
          /\ free_RawTimelineValuesBuf(FreedBuf) = FreedBuf
          /\ Released(last.before) = 0 => FreedBuf = last.before

\* a second free_RawTimelineValuesBuf in a row on a buffer that had been prepared
C30_Witness ==
    /\ last.op = "free_RawTimelineValuesBuf"
    /\ "before" \in DOMAIN last
    /\ last.before.time_step # 0
    /\ Released(last.before) = 0
    /\ FreedBuf = last.before

=============================================================================
